---- MODULE Spec2Model ----
(***************************************************************************)
(* Model of the NinjaRupiah key manager (frontend/src/lib/keys/manager.ts) *)
(* over the key-derivation functions of lib/crypto/kdf and the vault and   *)
(* derivation helpers it calls.                                            *)
(*                                                                         *)
(* Every async method is a task that advances from one await to the next;  *)
(* one action is the awaited call taking effect together with the          *)
(* continuation of the method up to its next await.  A storage write and   *)
(* the continuation after it are two steps.  lock() is synchronous and is  *)
(* one action.  Byte buffers are sequences of KeyLen numbers, a KeySet is  *)
(* an object on a heap so that zeroing in place is seen through every      *)
(* reference.                                                              *)
(***************************************************************************)
EXTENDS Integers, Sequences, FiniteSets, TLC

\* ------------------------------------------------------------------ bounds
NumTasks == 2
MaxSalt == 4
MaxHeap == 3
KeyLen == 2
MaxCalls == 2
MaxRaces == 1
NumScans == 2
GroupOrder == 7
MaxBytes == 2
MaxBatch == 2
MaxLogs == 2

\* ------------------------------------------------------- program constants
MIN_SALT_LENGTH == 16
UNLOCK_SALT_LENGTH == 16
MASTER_KEY_LENGTH == 32
MAX_SUBKEY_LENGTH == 255
\* the Argon2id parameters of lib/crypto/kdf and of lib/helpers/constants
DEFAULT_ARGON2_CONFIG == [memoryCost |-> 65536, timeCost |-> 3, parallelism |-> 4,
                          hashLength |-> 32]
ARGON2_CONFIG == [memoryCost |-> 65534, timeCost |-> 3, parallelism |-> 4,
                  hashLength |-> 32]
\* the domain-separation literals of the three HKDF derivations
MASTER_SALT == "NinjaRupiah-master-salt-v1"
MASTER_INFO == "master-key-v1"
SUBKEY_SALT == "NinjaRupiah-subkey-salt-v1"
SUBKEY_INFO_PREFIX == "NinjaRupiah-v1: "
UNLOCK_SALT == "NinjaRupiah-unlock-salt-v1"
UNLOCK_INFO == "NinjaRupiah-v1: unlock-key"

NULL == 0
\* the inputs of the calls: wallet addresses, user identifiers and
\* passwords; password 0 is the empty string
Addr == {1, 2}
Uid == {1, 2}
Passwords == {0, 1, 2}
\* the caller passes the wallet, the identifier and the auth method of the
\* user who is logged in: one login per wallet
Users == {[walletAddress |-> 1, userIdentifier |-> 1, authMethod |-> "email"],
          [walletAddress |-> 2, userIdentifier |-> 2, authMethod |-> "wallet"]}
Tasks == 1..NumTasks
Scans == 1..NumScans

\* error codes (ERROR_CODES of lib/helpers/errors, as used by the manager)
KEY_ALREADY_EXISTS == "KEY_ALREADY_EXISTS"
KEY_INVALID == "KEY_INVALID"
KEY_DERIVATION_FAILED == "KEY_DERIVATION_FAILED"
KEY_NOT_INITIALIZED == "KEY_NOT_INITIALIZED"
KEY_LOCKED == "KEY_LOCKED"
AUTH_INVALID_PASSWORD == "AUTH_INVALID_PASSWORD"
KEY_ERROR_NO_CODE == "KEY_ERROR"
OK == "ok"
NONE == "none"
\* codes of the CryptoError raised by lib/crypto/kdf
ARGON2_INVALID_SALT == "ARGON2_INVALID_SALT"
ARGON2_INVALID_PASSWORD == "ARGON2_INVALID_PASSWORD"
INVALID_SALT_LENGTH == "INVALID_SALT_LENGTH"
INVALID_MASTER_KEY == "INVALID_MASTER_KEY"
INVALID_KEY_LENGTH == "INVALID_KEY_LENGTH"

\* ---------------------------------------------------------- byte buffers
ZeroBuf == [i \in 1..KeyLen |-> 0]
IsZero(buf) == \A i \in 1..Len(buf) : buf[i] = 0

\* domain-separation tags: one per (salt, info) pair of the KDF and one per
\* public-key derivation
TagUnlock == 1
TagMaster == 2
TagStorage == 3
TagViewing == 4
TagSpending == 5
NumTags == TagSpending + 3

\* a buffer of KeyLen bytes derived from input code c under a domain tag
Fill(tag, c) == [i \in 1..KeyLen |-> tag + NumTags * c]

\* Nonce.generateSalt: n bytes from the secure random source
NonceGenerateSalt(n, id) == [id |-> id, len |-> n]

\* Kdf.generateArgon2Salt: rejects a length under 16, else n random bytes;
\* the random bytes are the id of the salt, id = the number of salts drawn
GenerateArgon2Salt(n, id) ==
  IF n < MIN_SALT_LENGTH
  THEN [ok |-> FALSE, err |-> INVALID_SALT_LENGTH, salt |-> [id |-> 0, len |-> 0]]
  ELSE [ok |-> TRUE, err |-> NONE, salt |-> NonceGenerateSalt(n, id)]

\* the call made to argon2id of hash-wasm
Argon2id(password, salt, config) ==
  [password |-> password, salt |-> salt, parallelism |-> config.parallelism,
   iterations |-> config.timeCost, memorySize |-> config.memoryCost,
   hashLength |-> config.hashLength]

NoArgon2 == [password |-> 0, salt |-> [id |-> 0, len |-> 0], parallelism |-> 0,
             iterations |-> 0, memorySize |-> 0, hashLength |-> 0]

DerivePasswordHashPasswordFirst(password, salt, config) ==
  IF password = 0
  THEN [ok |-> FALSE, err |-> ARGON2_INVALID_PASSWORD, hash |-> 0, argon2 |-> NoArgon2]
  ELSE IF salt.len < MIN_SALT_LENGTH
  THEN [ok |-> FALSE, err |-> ARGON2_INVALID_SALT, hash |-> 0, argon2 |-> NoArgon2]
  ELSE [ok |-> TRUE, err |-> NONE,
        hash |-> (salt.id - 1) * Cardinality(Passwords) + password,
        argon2 |-> Argon2id(password, salt, config)]

\* Kdf.derivePasswordHash with its config argument: salt floor first, then
\* the empty password, then argon2id with the parameters of the config;
\* argon2 is the call made to the hash, hash the code of its output
DerivePasswordHashWith(password, salt, config) ==
  IF salt.len < MIN_SALT_LENGTH
  THEN [ok |-> FALSE, err |-> ARGON2_INVALID_SALT, hash |-> 0, argon2 |-> NoArgon2]
  ELSE IF password = 0
  THEN [ok |-> FALSE, err |-> ARGON2_INVALID_PASSWORD, hash |-> 0, argon2 |-> NoArgon2]
  ELSE [ok |-> TRUE, err |-> NONE,
        hash |-> (salt.id - 1) * Cardinality(Passwords) + password,
        argon2 |-> Argon2id(password, salt, config)]

\* Kdf.derivePasswordHash called without a config: config = ARGON2_CONFIG
DerivePasswordHash(password, salt) ==
  DerivePasswordHashWith(password, salt, ARGON2_CONFIG)

DeriveUnlockKeyAsksSigner(password, unlockSalt) ==
  LET ph == DerivePasswordHash(password, unlockSalt)
  IN IF ph.ok THEN [ok |-> TRUE, key |-> Fill(TagUnlock, ph.hash), signerCalls |-> 1]
     ELSE [ok |-> FALSE, key |-> ZeroBuf, signerCalls |-> 1]

\* Kdf.deriveUnlockKey: password hash, then HKDF under the unlock constants;
\* the key is a function of the password and the salt alone, signerCalls is
\* the number of wallet.signMessage requests it makes
DeriveUnlockKey(password, unlockSalt) ==
  LET ph == DerivePasswordHash(password, unlockSalt)
  IN IF ph.ok THEN [ok |-> TRUE, key |-> Fill(TagUnlock, ph.hash), signerCalls |-> 0]
     ELSE [ok |-> FALSE, key |-> ZeroBuf, signerCalls |-> 0]

\* the signature the wallet returns: deterministic in (wallet, identifier)
WalletSignature(addr, uid) == (addr - 1) * Cardinality(Uid) + uid
NumSignatures == Cardinality(Addr) * Cardinality(Uid)

\* Kdf.deriveMasterKey: ikm = passwordHash ++ walletSignature
DeriveMasterKey(passwordHash, walletSignature) ==
  Fill(TagMaster, (passwordHash - 1) * NumSignatures + walletSignature)

\* the input code a master-key buffer was filled from
MasterCode(masterKey) == (masterKey[1] - TagMaster) \div NumTags

\* Kdf.deriveSubKey: 32-byte master key required; purpose is the tag
DeriveSubKey(masterKey, purposeTag) == Fill(purposeTag, MasterCode(masterKey))

\* ------------------------------------- the HKDF inputs of the derivations
\* keccak_256 and hkdf(keccak_256, ...) as ideal functions: the value is
\* the record of the arguments, so that two values are equal exactly when
\* all the arguments are
Keccak256(text) == [keccak |-> text]
Hkdf(ikm, salt, info, length) == [ikm |-> ikm, salt |-> salt, info |-> info, length |-> length]

\* the byte strings handed to deriveMasterKey: up to MaxBytes bytes each
Bytes01 == {0, 1}
ByteStrings == UNION {[1..n -> Bytes01] : n \in 0..MaxBytes}

MasterKeyIkmHashOnly(passwordHash, walletSignature) == passwordHash

\* ikm = passwordHash followed by walletSignature
MasterKeyIkm(passwordHash, walletSignature) == passwordHash \o walletSignature

\* the HKDF step of Kdf.deriveMasterKey
KdfMasterKey(ikm) == Hkdf(ikm, Keccak256(MASTER_SALT), MASTER_INFO, MASTER_KEY_LENGTH)

\* Kdf.deriveMasterKey on byte strings
KdfDeriveMasterKey(passwordHash, walletSignature) ==
  KdfMasterKey(MasterKeyIkm(passwordHash, walletSignature))

SubKeyInfoFixed(purpose) == SUBKEY_INFO_PREFIX

\* the info string of deriveSubKey: `NinjaRupiah-v1: ${purpose}`
SubKeyInfo(purpose) == SUBKEY_INFO_PREFIX \o purpose

\* Kdf.deriveSubKey with its purpose label and its length; a key is its
\* bytes (id) and its length (len)
KdfDeriveSubKey(masterKey, purpose, length) ==
  IF masterKey.len # MASTER_KEY_LENGTH
  THEN [ok |-> FALSE, err |-> INVALID_MASTER_KEY, key |-> NONE]
  ELSE IF length <= 0 \/ length > MAX_SUBKEY_LENGTH
  THEN [ok |-> FALSE, err |-> INVALID_KEY_LENGTH, key |-> NONE]
  ELSE [ok |-> TRUE, err |-> NONE,
        key |-> Hkdf(masterKey, Keccak256(SUBKEY_SALT), SubKeyInfo(purpose), length)]

\* the HKDF step of Kdf.deriveUnlockKey
KdfUnlockKey(passwordHash) ==
  Hkdf(passwordHash, Keccak256(UNLOCK_SALT), UNLOCK_INFO, MASTER_KEY_LENGTH)

\* the public key of a private scalar (curve multiplication by G)
PublicKeyOf(priv) == [i \in 1..Len(priv) |-> priv[i] + 2]


\* ------------------------------------------------------------- KeySet
\* DerivedKeys: the in-memory bundle held between unlock and lock
NoKeys == [masterKey |-> ZeroBuf, storageEncryptionKey |-> ZeroBuf,
           metaViewingPriv |-> ZeroBuf, metaSpendingPriv |-> ZeroBuf,
           metaViewingPub |-> ZeroBuf, metaSpendingPub |-> ZeroBuf]

\* Derivation.deriveKeys after the password hash and the signature are in
\* hand: master key, the three purpose-bound sub-keys, the two public keys
DeriveKeySet(passwordHash, walletSignature) ==
  LET mk == DeriveMasterKey(passwordHash, walletSignature)
      vp == DeriveSubKey(mk, TagViewing)
      sp == DeriveSubKey(mk, TagSpending)
  IN [masterKey |-> mk,
      storageEncryptionKey |-> DeriveSubKey(mk, TagStorage),
      metaViewingPriv |-> vp, metaSpendingPriv |-> sp,
      metaViewingPub |-> PublicKeyOf(vp), metaSpendingPub |-> PublicKeyOf(sp)]

\* Derivation.validateKeys: private keys non-zero, lengths right, public
\* keys consistent with the private keys
ValidateKeys(ks) ==
  /\ \A f \in {"masterKey", "storageEncryptionKey", "metaViewingPriv", "metaSpendingPriv"} :
        Len(ks[f]) = KeyLen /\ ~IsZero(ks[f])
  /\ ks.metaViewingPub = PublicKeyOf(ks.metaViewingPriv)
  /\ ks.metaSpendingPub = PublicKeyOf(ks.metaSpendingPriv)

\* Derivation.zeroKeys: every private-key buffer is overwritten with zeros
ZeroKeys(ks) ==
  [ks EXCEPT !.masterKey = [i \in 1..Len(@) |-> 0],
             !.storageEncryptionKey = [i \in 1..Len(@) |-> 0],
             !.metaViewingPriv = [i \in 1..Len(@) |-> 0],
             !.metaSpendingPriv = [i \in 1..Len(@) |-> 0]]

PrivateZeroed(ks) ==
  /\ IsZero(ks.masterKey) /\ IsZero(ks.storageEncryptionKey)
  /\ IsZero(ks.metaViewingPriv) /\ IsZero(ks.metaSpendingPriv)

\* Derivation.exportPublicKeys: the two public meta-keys only
ExportPublicKeys(ks) ==
  [metaViewingPub |-> ks.metaViewingPub, metaSpendingPub |-> ks.metaSpendingPub]

\* --------------------------------------------------------------- vault
NoSalt == [id |-> 0, len |-> 0]
NoRecord == [present |-> FALSE, key |-> ZeroBuf, aad |-> <<NULL, NULL, NONE>>,
             plain |-> NoKeys, salt |-> NoSalt, unlockSalt |-> NoSalt,
             walletAddress |-> NULL, userIdentifier |-> NULL, authMethod |-> NONE]

\* Storage.encryptKeys: the KeySet is serialized and sealed under the unlock
\* key with (account, user, auth method) as associated data; both salts and
\* the identifiers are stored in the clear next to the ciphertext
EncryptKeys(ks, unlockKey, walletAddress, userIdentifier, authMethod, salt, unlockSalt) ==
  [present |-> TRUE, key |-> unlockKey,
   aad |-> <<walletAddress, userIdentifier, authMethod>>,
   plain |-> ks, salt |-> salt, unlockSalt |-> unlockSalt,
   walletAddress |-> walletAddress, userIdentifier |-> userIdentifier,
   authMethod |-> authMethod]

\* Storage.decryptKeys: the tag and the associated data are verified before
\* any plaintext is released
DecryptKeys(rec, unlockKey) ==
  IF /\ rec.key = unlockKey
     /\ rec.aad = <<rec.walletAddress, rec.userIdentifier, rec.authMethod>>
  THEN [ok |-> TRUE, keys |-> rec.plain]
  ELSE [ok |-> FALSE, keys |-> NoKeys]

\* ------------------------------------------------------------- state
\* state   KeyManager.state
\* heap    the KeySet objects allocated so far, a reference is an index
\* vault   the persisted VaultRecord of each account
\* tasks   the calls in progress: position and locals of each
\* rng     the number of salts drawn from the random source
\* calls   the number of calls made; races, those made during another call
\* origin  history of the record of each account: the password that seals
\*         it and the public keys of the initialize that created it, and,
\*         once updatePassword has replaced it (changed), the password it
\*         was sealed with before; forgotten when the record is deleted or
\*         damaged
\* scans   the payment scans of useStealthPayments: position and locals
\* stealth one run of the stealth address engine: the key pairs, the
\*         ephemeral scalar, what generate returned and what check returned
\* proof   one call of generateUsernameProof and what was read back from
\*         its public values
\* sendPage  the payment in progress on the send page: position, status shown
\*         and the transactions submitted
\* hookState  the state useStealthPayments returns to the page
\* kdf     the last call of a function of lib/crypto/kdf made on its own:
\*         its name, its arguments and what it returned
\* pipeline one run of the payment-discovery decoding: the transaction
\*         payload and the ephemeral key extracted from it
\* lockedOver the calls that were suspended at an await when lock() ran
VARIABLES state, heap, vault, tasks, rng, calls, races, origin, scans, stealth, kdf,
          pipeline, proof, sendPage, hookState, lockedOver

vars == <<state, heap, vault, tasks, rng, calls, races, origin, scans, stealth, kdf,
          pipeline, proof, sendPage, hookState, lockedOver>>

NoOrigin == [valid |-> FALSE, changed |-> FALSE, password |-> 0, oldPassword |-> 0,
             pub |-> [metaViewingPub |-> ZeroBuf, metaSpendingPub |-> ZeroBuf]]

IdleTask == [op |-> "idle", pc |-> "idle", password |-> 0, newPassword |-> 0,
             wallet |-> NULL, userIdentifier |-> NULL, authMethod |-> NONE,
             hash |-> 0, keys |-> NULL, salt |-> NoSalt, unlockSalt |-> NoSalt,
             unlockKey |-> ZeroBuf, loaded |-> NoRecord, existing |-> NoRecord,
             encrypted |-> NoRecord, signed |-> 0, res |-> NONE,
             raisedBy |-> NONE, preUnlocked |-> FALSE]

\* KeyManager.state as constructed
InitialState == [isInitialized |-> FALSE, isUnlocked |-> FALSE,
                 walletAddress |-> NULL, authMethod |-> NONE,
                 userIdentifier |-> NULL, keys |-> NULL]

\* a scan that has not started: no KeySet reference, nothing checked,
\* nothing published
\* cur is the log being processed, seen what became of the logs before
\* it, payments the list myPayments; passed is the ephemeral key handed to
\* the stealth check of a log, carried the keys of the sendToStealth calls
\* in the payload of its transaction
NoLog == [index |-> 0, sender |-> NONE, self |-> FALSE, forMe |-> FALSE, fetched |-> FALSE,
          yields |-> FALSE, checked |-> FALSE, passed |-> NULL, carried |-> {},
          timestamp |-> 0, outcome |-> NONE]
IdleScan == [pc |-> "idle", wallet |-> NULL, keys |-> NULL, logs |-> 0, left |-> 0,
             cur |-> NoLog,
             seen |-> <<>>, payments |-> <<>>, check |-> NONE, held |-> FALSE,
             isForMe |-> FALSE, published |-> NONE, transactions |-> <<>>,
             error |-> FALSE, older |-> {}]

NoStealth == [stage |-> NONE, viewingPriv |-> 0, spendingPriv |-> 0, r |-> 0,
              stealthAddress |-> 0, ephemeralPubkey |-> 0, sharedSender |-> 0,
              sharedRecipient |-> 0, isForMe |-> FALSE, derivedAddress |-> 0]

\* the key manager as constructed (the module's keyManager), no call made
InitManager ==
  /\ state = InitialState
  /\ heap = <<>>
  /\ vault = [a \in Addr |-> NoRecord]
  /\ tasks = [t \in Tasks |-> IdleTask]
  /\ rng = 0
  /\ calls = 0
  /\ races = 0
  /\ origin = [a \in Addr |-> NoOrigin]
  /\ lockedOver = {}
  /\ scans = [s \in Scans |-> IdleScan]

NoKdf == [op |-> NONE, in |-> <<>>, out |-> <<>>]

NoExtract == [found |-> FALSE, eph |-> NULL, path |-> NONE]

\* no proof requested, no payment started on the send page
NoProof == [stage |-> NONE, style |-> NONE, username |-> <<>>, wallet |-> <<>>,
            secret |-> <<>>, response |-> [ok |-> FALSE, public_values |-> <<>>,
                                           commitment |-> <<>>],
            extracted |-> {}, usernameHash |-> <<>>, commitment |-> <<>>]
NoSend == [pc |-> "idle", sendStatus |-> "idle", sendError |-> FALSE, txHash |-> FALSE,
           recipient |-> <<>>, amount |-> "", recipientAddress |-> NONE,
           registered |-> NONE, amountInWei |-> 0, allowanceRead |-> FALSE,
           allowance |-> 0,
           approveAwaited |-> FALSE, submitted |-> <<>>, failedAt |-> NONE]

\* useState of useStealthPayments as the hook is mounted; by is the scan
\* whose setState was applied last
InitialHookState == [transactions |-> <<>>, loading |-> TRUE, scanning |-> FALSE,
                     error |-> FALSE, keysLocked |-> TRUE, by |-> 0]
NoPipeline == [stage |-> NONE, input |-> NONE, out |-> NoExtract]

Init ==
  /\ InitManager
  /\ stealth = NoStealth
  /\ kdf = NoKdf
  /\ pipeline = NoPipeline
  /\ proof = NoProof
  /\ sendPage = NoSend
  /\ hookState = InitialHookState

\* ------------------------------------------------------- KeyManager.lock
LockStateForgets(s) ==
  [isInitialized |-> s.isInitialized, isUnlocked |-> FALSE,
   walletAddress |-> NULL, authMethod |-> NONE,
   userIdentifier |-> NULL, keys |-> NULL]

\* the state lock() leaves: flags and identifiers kept, keys dropped
LockState(s) ==
  [isInitialized |-> s.isInitialized, isUnlocked |-> FALSE,
   walletAddress |-> s.walletAddress, authMethod |-> s.authMethod,
   userIdentifier |-> s.userIdentifier, keys |-> NULL]

LockHeapSkipped(h, s) == h

\* if (this.state.keys) Derivation.zeroKeys(this.state.keys)
LockHeap(h, s) == IF s.keys # NULL THEN [h EXCEPT ![s.keys] = ZeroKeys(@)] ELSE h

\* a call that is suspended at an await when lock() runs is put in
\* lockedOver
Lock ==
  /\ heap' = LockHeap(heap, state)
  /\ state' = LockState(state)
  /\ lockedOver' = lockedOver \cup {t \in Tasks : tasks[t].pc \notin {"idle", "done"}}
  /\ UNCHANGED <<vault, tasks, rng, origin>>

GetKeysUnguarded(s) == [ok |-> TRUE, err |-> NONE, keys |-> s.keys]

\* KeyManager.getKeys
GetKeys(s) ==
  IF ~s.isUnlocked \/ s.keys = NULL THEN [ok |-> FALSE, err |-> KEY_LOCKED, keys |-> NULL]
  ELSE [ok |-> TRUE, err |-> NONE, keys |-> s.keys]

\* KeyManager.getPublicKeys
GetPublicKeys(s, h) ==
  LET r == GetKeys(s)
  IN IF r.ok THEN [ok |-> TRUE, err |-> NONE, pub |-> ExportPublicKeys(h[r.keys])]
     ELSE [ok |-> FALSE, err |-> r.err, pub |-> ExportPublicKeys(NoKeys)]

CatchStateKept(s) == s

\* the state after the catch block of initialize and of unlock: this.lock()
CatchState(s) == LockState(s)

\* the catch block of initialize and unlock: lock(), then the error is
\* rethrown, a KeyError as it is and anything else wrapped; `method` is the
\* method whose catch block runs
Fail(t, method, code) ==
  /\ heap' = LockHeap(heap, state)
  /\ state' = CatchState(state)
  /\ tasks' = [tasks EXCEPT ![t].pc = "done", ![t].res = code,
                 ![t].raisedBy = method, ![t].preUnlocked = state.isUnlocked]

\* updatePassword throws: its catch block rethrows and does not lock
Throw(t, code) ==
  tasks' = [tasks EXCEPT ![t].pc = "done", ![t].res = code,
              ![t].raisedBy = "updatePassword", ![t].preUnlocked = state.isUnlocked]

InFlight(t) == tasks[t].pc \notin {"idle", "done"}

\* a fresh KeySet object; the reference is its index on the heap
Alloc(h, ks) == Append(h, ks)

\* --------------------------------------------------- KeyManager.initialize
\* the call: Storage.keyExistsInStorage is awaited
CallInitialize(t, password, wallet, userIdentifier, authMethod) ==
  /\ tasks[t].pc = "idle"
  /\ tasks' = [tasks EXCEPT ![t] = [IdleTask EXCEPT !.op = "initialize", !.pc = "i_exists",
                 !.password = password, !.wallet = wallet,
                 !.userIdentifier = userIdentifier, !.authMethod = authMethod]]
  /\ UNCHANGED <<state, heap, vault, rng, origin>>

InitExistsIgnored(exists) == FALSE

\* if (exists) throw KEY_ALREADY_EXISTS
InitExistsThrows(exists) == exists

\* exists ? throw KEY_ALREADY_EXISTS : Derivation.deriveKeys(params), which
\* draws the master-key salt and awaits the password hash
InitExists(t) ==
  /\ tasks[t].op = "initialize" /\ tasks[t].pc = "i_exists"
  /\ IF InitExistsThrows(vault[tasks[t].wallet].present)
     THEN Fail(t, "initialize", KEY_ALREADY_EXISTS) /\ UNCHANGED <<vault, rng>>
     ELSE /\ rng < MaxSalt
          /\ rng' = rng + 1
          /\ tasks' = [tasks EXCEPT ![t].pc = "i_hash",
                         ![t].salt = GenerateArgon2Salt(UNLOCK_SALT_LENGTH, rng + 1).salt]
          /\ UNCHANGED <<state, heap, vault>>
  /\ UNCHANGED origin

\* the password hash resolves (CryptoError on an empty password) and the
\* wallet is asked to sign
InitHash(t) ==
  /\ tasks[t].op = "initialize" /\ tasks[t].pc = "i_hash"
  /\ LET ph == DerivePasswordHash(tasks[t].password, tasks[t].salt)
     IN IF ph.ok
        THEN /\ tasks' = [tasks EXCEPT ![t].pc = "i_sign", ![t].hash = ph.hash,
                            ![t].signed = @ + 1]
             /\ UNCHANGED <<state, heap>>
        ELSE Fail(t, "initialize", KEY_DERIVATION_FAILED)
  /\ UNCHANGED <<vault, rng, origin>>

\* wallet.signMessage resolves or rejects; on a signature the KeySet is
\* derived and validated, the unlock salt is drawn and Kdf.deriveUnlockKey
\* is awaited
InitSign(t, signerOk) ==
  /\ tasks[t].op = "initialize" /\ tasks[t].pc = "i_sign"
  /\ IF ~signerOk
     THEN Fail(t, "initialize", KEY_DERIVATION_FAILED) /\ UNCHANGED <<vault, rng>>
     ELSE LET ks == DeriveKeySet(tasks[t].hash,
                       WalletSignature(tasks[t].wallet, tasks[t].userIdentifier))
          IN /\ Len(heap) < MaxHeap
             /\ rng < MaxSalt
             /\ IF ValidateKeys(ks)
                THEN /\ heap' = Alloc(heap, ks)
                     /\ rng' = rng + 1
                     /\ tasks' = [tasks EXCEPT ![t].pc = "i_unlockKey",
                                    ![t].keys = Len(heap) + 1, ![t].hash = 0,
                                    ![t].unlockSalt =
                                       GenerateArgon2Salt(UNLOCK_SALT_LENGTH, rng + 1).salt]
                     /\ UNCHANGED <<state, vault>>
                ELSE /\ heap' = LockHeap(Alloc(heap, ks), state)
                     /\ state' = CatchState(state)
                     /\ tasks' = [tasks EXCEPT ![t].pc = "done", ![t].res = KEY_INVALID,
                                    ![t].keys = Len(heap) + 1,
                                    ![t].raisedBy = "initialize",
                                    ![t].preUnlocked = state.isUnlocked]
                     /\ UNCHANGED <<vault, rng>>
  /\ UNCHANGED origin

\* the unlock key resolves and Storage.encryptKeys is called with it
InitUnlockKey(t) ==
  /\ tasks[t].op = "initialize" /\ tasks[t].pc = "i_unlockKey"
  /\ LET uk == DeriveUnlockKey(tasks[t].password, tasks[t].unlockSalt)
     IN IF uk.ok
        THEN /\ tasks' = [tasks EXCEPT ![t].pc = "i_encrypt", ![t].unlockKey = uk.key,
                            ![t].signed = @ + uk.signerCalls,
                            ![t].encrypted =
                               EncryptKeys(heap[tasks[t].keys], uk.key, tasks[t].wallet,
                                           tasks[t].userIdentifier, tasks[t].authMethod,
                                           tasks[t].salt, tasks[t].unlockSalt)]
             /\ UNCHANGED <<state, heap>>
        ELSE Fail(t, "initialize", KEY_DERIVATION_FAILED)
  /\ UNCHANGED <<vault, rng, origin>>

\* the record is ready: unlockKey.fill(0), Storage.saveKeysToStorage awaited
InitEncrypt(t) ==
  /\ tasks[t].op = "initialize" /\ tasks[t].pc = "i_encrypt"
  /\ tasks' = [tasks EXCEPT ![t].pc = "i_save", ![t].unlockKey = [i \in 1..Len(@) |-> 0]]
  /\ UNCHANGED <<state, heap, vault, rng, origin>>

InitSaveWritesNothing(v, rec) == v

InitSaveWritesIfAbsent(v, rec) ==
  IF v[rec.walletAddress].present THEN v ELSE [v EXCEPT ![rec.walletAddress] = rec]

\* Storage.saveKeysToStorage(encrypted): the record is stored under its
\* account, whatever was stored there
InitSaveWrites(v, rec) == [v EXCEPT ![rec.walletAddress] = rec]

\* the store takes the record, or the write fails (StorageError)
InitSave(t, saveOk) ==
  /\ tasks[t].op = "initialize" /\ tasks[t].pc = "i_save"
  /\ IF saveOk
     THEN /\ vault' = InitSaveWrites(vault, tasks[t].encrypted)
          /\ origin' = [origin EXCEPT ![tasks[t].encrypted.walletAddress] =
                          [valid |-> TRUE, changed |-> FALSE,
                           password |-> tasks[t].password, oldPassword |-> 0,
                           pub |-> ExportPublicKeys(tasks[t].encrypted.plain)]]
          /\ tasks' = [tasks EXCEPT ![t].pc = "i_saved"]
          /\ UNCHANGED <<state, heap>>
     ELSE Fail(t, "initialize", KEY_DERIVATION_FAILED) /\ UNCHANGED <<vault, origin>>
  /\ UNCHANGED rng

UnlockedStateWithoutKeys(s, walletAddress, userIdentifier, authMethod, keys) ==
  [isInitialized |-> TRUE, isUnlocked |-> TRUE, walletAddress |-> walletAddress,
   authMethod |-> authMethod, userIdentifier |-> userIdentifier, keys |-> NULL]

\* this.state = {isInitialized: true, isUnlocked: true, ..., keys}
UnlockedState(s, walletAddress, userIdentifier, authMethod, keys) ==
  [isInitialized |-> TRUE, isUnlocked |-> TRUE, walletAddress |-> walletAddress,
   authMethod |-> authMethod, userIdentifier |-> userIdentifier, keys |-> keys]

\* the save resolves: the manager becomes Unlocked holding the KeySet
InitFinish(t) ==
  /\ tasks[t].op = "initialize" /\ tasks[t].pc = "i_saved"
  /\ state' = UnlockedState(state, tasks[t].wallet, tasks[t].userIdentifier,
                            tasks[t].authMethod, tasks[t].keys)
  /\ tasks' = [tasks EXCEPT ![t].pc = "done", ![t].res = OK]
  /\ UNCHANGED <<heap, vault, rng, origin>>


\* ------------------------------------------------------- KeyManager.unlock
\* unlock is run by an unlock call and, nested, by updatePassword
RunsUnlock(t) == tasks[t].op \in {"unlock", "updatePassword"}

\* the call: Storage.loadKeysFromStorage is awaited
CallUnlock(t, password, walletAddress) ==
  /\ tasks[t].pc = "idle"
  /\ tasks' = [tasks EXCEPT ![t] = [IdleTask EXCEPT !.op = "unlock", !.pc = "u_load",
                 !.password = password, !.wallet = walletAddress]]
  /\ UNCHANGED <<state, heap, vault, rng, origin>>

UnlockRecordMissingIgnored(encrypted) == FALSE

\* if (!encrypted) throw KEY_NOT_INITIALIZED
UnlockRecordMissing(encrypted) == ~encrypted.present

\* no record ? throw KEY_NOT_INITIALIZED : the unlock salt is read from the
\* record and Kdf.deriveUnlockKey is awaited
UnlockLoad(t) ==
  /\ RunsUnlock(t) /\ tasks[t].pc = "u_load"
  /\ LET encrypted == vault[tasks[t].wallet]
     IN IF UnlockRecordMissing(encrypted)
        THEN Fail(t, "unlock", KEY_NOT_INITIALIZED)
        ELSE /\ tasks' = [tasks EXCEPT ![t].pc = "u_unlockKey", ![t].loaded = encrypted,
                            ![t].unlockSalt = encrypted.unlockSalt]
             /\ UNCHANGED <<state, heap>>
  /\ UNCHANGED <<vault, rng, origin>>

\* the unlock key resolves (a CryptoError is not a KeyError and is wrapped
\* as AUTH_INVALID_PASSWORD) and Storage.decryptKeys is awaited
UnlockKey(t) ==
  /\ RunsUnlock(t) /\ tasks[t].pc = "u_unlockKey"
  /\ LET uk == DeriveUnlockKey(tasks[t].password, tasks[t].unlockSalt)
     IN IF uk.ok
        THEN /\ tasks' = [tasks EXCEPT ![t].pc = "u_decrypt", ![t].unlockKey = uk.key,
                            ![t].signed = @ + uk.signerCalls]
             /\ UNCHANGED <<state, heap>>
        ELSE Fail(t, "unlock", AUTH_INVALID_PASSWORD)
  /\ UNCHANGED <<vault, rng, origin>>

UnlockInvalidKeysConflated == AUTH_INVALID_PASSWORD

\* the error unlock rethrows when the decrypted KeySet is rejected: the
\* KeyError thrown on the validation failure, as it is
UnlockInvalidKeysCode == KEY_INVALID

\* decryptKeys resolves or throws; unlockKey.fill(0); validateKeys; the
\* manager becomes Unlocked holding the decrypted KeySet
UnlockDecrypt(t) ==
  /\ RunsUnlock(t) /\ tasks[t].pc = "u_decrypt"
  /\ LET dec == DecryptKeys(tasks[t].loaded, tasks[t].unlockKey)
         ref == Len(heap) + 1
         after == IF tasks[t].op = "unlock" THEN "done" ELSE "p_unlocked"
     IN IF ~dec.ok
        THEN Fail(t, "unlock", AUTH_INVALID_PASSWORD)
        ELSE /\ Len(heap) < MaxHeap
             /\ IF ValidateKeys(dec.keys)
                THEN /\ heap' = Alloc(heap, dec.keys)
                     /\ state' = UnlockedState(state, tasks[t].wallet,
                                               tasks[t].loaded.userIdentifier,
                                               tasks[t].loaded.authMethod, ref)
                     /\ tasks' = [tasks EXCEPT ![t].pc = after,
                                    ![t].res = IF after = "done" THEN OK ELSE NONE,
                                    ![t].keys = ref,
                                    ![t].unlockKey = [i \in 1..Len(@) |-> 0]]
                ELSE /\ heap' = LockHeap(Alloc(heap, dec.keys), state)
                     /\ state' = CatchState(state)
                     /\ tasks' = [tasks EXCEPT ![t].pc = "done",
                                    ![t].res = UnlockInvalidKeysCode,
                                    ![t].keys = ref,
                                    ![t].unlockKey = [i \in 1..Len(@) |-> 0],
                                    ![t].raisedBy = "unlock",
                                    ![t].preUnlocked = state.isUnlocked]
  /\ UNCHANGED <<vault, rng, origin>>

\* ----------------------------------------------- KeyManager.updatePassword
\* the call: no wallet address in state ? throw KEY_NOT_INITIALIZED :
\* unlock(oldPassword, this.state.walletAddress)
CallUpdatePassword(t, oldPassword, newPassword) ==
  /\ tasks[t].pc = "idle"
  /\ IF state.walletAddress = NULL
     THEN tasks' = [tasks EXCEPT ![t] = [IdleTask EXCEPT !.op = "updatePassword",
                      !.pc = "done", !.password = oldPassword,
                      !.newPassword = newPassword, !.res = KEY_NOT_INITIALIZED,
                      !.raisedBy = "updatePassword"]]
     ELSE tasks' = [tasks EXCEPT ![t] = [IdleTask EXCEPT !.op = "updatePassword",
                      !.pc = "u_load", !.password = oldPassword,
                      !.newPassword = newPassword, !.wallet = state.walletAddress]]
  /\ UNCHANGED <<state, heap, vault, rng, origin>>

\* unlock has resolved: no keys in state ? throw AUTH_INVALID_PASSWORD :
\* Storage.loadKeysFromStorage(this.state.walletAddress) is awaited
UpdAfterUnlock(t) ==
  /\ tasks[t].op = "updatePassword" /\ tasks[t].pc = "p_unlocked"
  /\ IF state.keys = NULL
     THEN Throw(t, AUTH_INVALID_PASSWORD)
     ELSE tasks' = [tasks EXCEPT ![t].pc = "p_load", ![t].wallet = state.walletAddress]
  /\ UNCHANGED <<state, heap, vault, rng, origin>>

\* no record ? throw KEY_NOT_INITIALIZED : the new unlock salt is drawn and
\* Kdf.deriveUnlockKey(newPassword, newUnlockSalt) is awaited
UpdLoad(t) ==
  /\ tasks[t].op = "updatePassword" /\ tasks[t].pc = "p_load"
  /\ LET existingStorage == IF tasks[t].wallet = NULL THEN NoRecord
                            ELSE vault[tasks[t].wallet]
     IN IF ~existingStorage.present
        THEN Throw(t, KEY_NOT_INITIALIZED) /\ UNCHANGED rng
        ELSE /\ rng < MaxSalt
             /\ rng' = rng + 1
             /\ tasks' = [tasks EXCEPT ![t].pc = "p_unlockKey",
                            ![t].existing = existingStorage,
                            ![t].unlockSalt =
                               GenerateArgon2Salt(UNLOCK_SALT_LENGTH, rng + 1).salt]
  /\ UNCHANGED <<state, heap, vault, origin>>

UpdRecordNewMasterSalt(s, h, newUnlockKey, masterSalt, newUnlockSalt) ==
  EncryptKeys(h[s.keys], newUnlockKey, s.walletAddress, s.userIdentifier,
              s.authMethod, newUnlockSalt, newUnlockSalt)

UpdRecordZeroedKey(s, h, newUnlockKey, masterSalt, newUnlockSalt) ==
  EncryptKeys(h[s.keys], [i \in 1..Len(newUnlockKey) |-> 0], s.walletAddress,
              s.userIdentifier, s.authMethod, masterSalt, newUnlockSalt)

\* the record updatePassword builds: the KeySet and the identifiers are read
\* from this.state when Storage.encryptKeys is called, the master-key salt
\* is the one of the record in storage
UpdRecord(s, h, newUnlockKey, masterSalt, newUnlockSalt) ==
  EncryptKeys(h[s.keys], newUnlockKey, s.walletAddress, s.userIdentifier,
              s.authMethod, masterSalt, newUnlockSalt)

\* the new unlock key resolves (a CryptoError is wrapped in a KeyError) and
\* Storage.encryptKeys is called on this.state.keys
UpdUnlockKey(t) ==
  /\ tasks[t].op = "updatePassword" /\ tasks[t].pc = "p_unlockKey"
  /\ LET uk == DeriveUnlockKey(tasks[t].newPassword, tasks[t].unlockSalt)
     IN IF ~uk.ok
        THEN Throw(t, KEY_ERROR_NO_CODE)
        ELSE IF state.keys = NULL
        THEN tasks' = [tasks EXCEPT ![t].pc = "done", ![t].res = KEY_ERROR_NO_CODE,
                         ![t].raisedBy = "updatePassword",
                         ![t].preUnlocked = state.isUnlocked,
                         ![t].signed = @ + uk.signerCalls,
                         ![t].unlockKey = uk.key]
        ELSE tasks' = [tasks EXCEPT ![t].pc = "p_encrypt", ![t].unlockKey = uk.key,
                         ![t].signed = @ + uk.signerCalls,
                         ![t].encrypted = UpdRecord(state, heap, uk.key,
                                                    tasks[t].existing.salt,
                                                    tasks[t].unlockSalt)]
  /\ UNCHANGED <<state, heap, vault, rng, origin>>

\* the record is ready: newUnlockKey.fill(0), the save is awaited
UpdEncrypt(t) ==
  /\ tasks[t].op = "updatePassword" /\ tasks[t].pc = "p_encrypt"
  /\ tasks' = [tasks EXCEPT ![t].pc = "p_save", ![t].unlockKey = [i \in 1..Len(@) |-> 0]]
  /\ UNCHANGED <<state, heap, vault, rng, origin>>

\* the store takes the record, or the write fails (StorageError, wrapped)
UpdSave(t, saveOk) ==
  /\ tasks[t].op = "updatePassword" /\ tasks[t].pc = "p_save"
  /\ IF saveOk
     THEN /\ vault' = [vault EXCEPT ![tasks[t].encrypted.walletAddress] = tasks[t].encrypted]
          /\ origin' = [origin EXCEPT ![tasks[t].encrypted.walletAddress] =
                          [valid |-> TRUE, changed |-> TRUE,
                           password |-> tasks[t].newPassword,
                           oldPassword |-> tasks[t].password,
                           pub |-> ExportPublicKeys(tasks[t].loaded.plain)]]
          /\ tasks' = [tasks EXCEPT ![t].pc = "p_saved"]
     ELSE /\ Throw(t, KEY_ERROR_NO_CODE)
          /\ UNCHANGED <<vault, origin>>
  /\ UNCHANGED <<state, heap, rng>>

UpdThrowsAfterSave == KEY_ERROR_NO_CODE

\* what updatePassword returns once the save has resolved
UpdResultAfterSave == OK

\* the save resolves and updatePassword returns
UpdFinish(t) ==
  /\ tasks[t].op = "updatePassword" /\ tasks[t].pc = "p_saved"
  /\ tasks' = [tasks EXCEPT ![t].pc = "done", ![t].res = UpdResultAfterSave,
                 ![t].raisedBy = IF UpdResultAfterSave = OK THEN NONE
                                 ELSE "updatePassword"]
  /\ UNCHANGED <<state, heap, vault, rng, origin>>

\* --------------------------------------------------- KeyManager.deleteKeys
DeleteKeys(walletAddress) ==
  /\ vault[walletAddress].present
  /\ vault' = [vault EXCEPT ![walletAddress] = NoRecord]
  /\ origin' = [origin EXCEPT ![walletAddress] = NoOrigin]
  /\ UNCHANGED <<state, heap, tasks, rng>>

\* the caller has seen the outcome of the call
Return(t) ==
  /\ tasks[t].pc = "done"
  /\ tasks' = [tasks EXCEPT ![t] = IdleTask]
  /\ lockedOver' = lockedOver \ {t}
  /\ UNCHANGED <<state, heap, vault, rng, origin>>

\* ------------------------------------------------- the persistence layer
\* the store is outside the manager: a record can be damaged in place (no
\* key opens it any more), and a record can seal a KeySet whose private keys
\* are zero
StorageDamage(walletAddress, how) ==
  /\ vault[walletAddress].present
  /\ vault' = [vault EXCEPT ![walletAddress] =
                 IF how = "ciphertext" THEN [@ EXCEPT !.key = [i \in 1..Len(@) |-> 0]]
                 ELSE [@ EXCEPT !.plain = ZeroKeys(@)]]
  /\ origin' = [origin EXCEPT ![walletAddress] = NoOrigin]
  /\ UNCHANGED <<state, heap, tasks, rng>>

\* ------------------------------------- payment discovery: the decoding
\* call data of the payment contract: a sendToStealth call with its
\* ephemeral key, another function of the contract, or bytes its ABI does
\* not decode
EphKeys == {1, 2}
NoCall == [fn |-> "unknown", eph |-> NULL]
Calldata == {[fn |-> "sendToStealth", eph |-> e] : e \in EphKeys}
              \cup {[fn |-> "claimFromStealth", eph |-> NULL], NoCall}

\* addresses as hex strings: the payment contract in lower case and in
\* mixed case, and another contract
NinahContractAddress == "0x3c2d"
Targets == {"0x3c2d", "0x3C2d", "0x31f4"}
ToLowerCase(a) ==
  CASE a = "0x3C2d" -> "0x3c2d"
    [] a \in {"0xAb01", "0xAB01"} -> "0xab01"
    [] OTHER -> a

\* the calls forwarded by a smart wallet and the user operations that
\* carry them: execute(dest, value, func), execute(calls[]) or another
\* function of the wallet
ForwardedCalls == [target : Targets, data : Calldata]
Batches == UNION {[1..n -> ForwardedCalls] : n \in 0..MaxBatch}
UserOps ==
  {[sel |-> "executeSingle", dest |-> c.target, func |-> c.data, calls |-> <<>>] :
      c \in ForwardedCalls}
    \cup {[sel |-> "executeBatch", dest |-> NONE, func |-> NoCall, calls |-> b] : b \in Batches}
    \cup {[sel |-> "other", dest |-> NONE, func |-> NoCall, calls |-> <<>>]}

\* a handleOps list: no operation, one operation, or one operation behind
\* an operation of another wallet
LeadingOps ==
  {[sel |-> "other", dest |-> NONE, func |-> NoCall, calls |-> <<>>],
   [sel |-> "executeSingle", dest |-> "0x31f4", func |-> NoCall, calls |-> <<>>],
   [sel |-> "executeSingle", dest |-> "0x3c2d",
    func |-> [fn |-> "sendToStealth", eph |-> 1], calls |-> <<>>]}
OpsLists == {<<>>} \cup {<<op>> : op \in UserOps}
              \cup {<<pre, op>> : pre \in LeadingOps, op \in UserOps}

\* tx.input: call data sent directly, a handleOps envelope, or an input
\* with the handleOps selector whose parameters do not decode
DirectPayload(data) == [shape |-> "call", data |-> data, ops |-> <<>>]
HandleOpsPayload(ops) == [shape |-> "handleOps", data |-> NoCall, ops |-> ops]
MalformedPayload == [shape |-> "malformed", data |-> NoCall, ops |-> <<>>]
Payloads == {DirectPayload(d) : d \in Calldata}
              \cup {HandleOpsPayload(ops) : ops \in OpsLists}
              \cup {MalformedPayload}

\* decodeFunctionData({abi: NinahABI, data}): throws on call data the ABI
\* does not know
DecodeFunctionData(data) ==
  IF data.fn = "unknown" THEN [ok |-> FALSE, functionName |-> NONE, eph |-> NULL]
  ELSE [ok |-> TRUE, functionName |-> data.fn, eph |-> data.eph]

InnerSendToStealthAnyTarget(target, data) ==
  LET d == DecodeFunctionData(data)
  IN IF d.ok /\ d.functionName = "sendToStealth" THEN d.eph ELSE NULL

\* a forwarded call: decoded only if its target is the payment contract;
\* the ephemeral key of a sendToStealth call, else null
InnerSendToStealth(target, data) ==
  IF ToLowerCase(target) = NinahContractAddress
  THEN LET d == DecodeFunctionData(data)
       IN IF d.ok /\ d.functionName = "sendToStealth" THEN d.eph ELSE NULL
  ELSE NULL

\* for (const call of calls): the first call that yields a key ends the loop
RECURSIVE FoundInBatch(_)
FoundInBatch(batch) ==
  IF batch = <<>> THEN NULL
  ELSE LET f == InnerSendToStealth(Head(batch).target, Head(batch).data)
       IN IF f # NULL THEN f ELSE FoundInBatch(Tail(batch))

FoundInOpSingleOnly(op) ==
  CASE op.sel = "executeSingle" -> InnerSendToStealth(op.dest, op.func)
    [] OTHER -> NULL

\* one user operation: the single execute, else the batch execute
FoundInOp(op) ==
  CASE op.sel = "executeSingle" -> InnerSendToStealth(op.dest, op.func)
    [] op.sel = "executeBatch" -> FoundInBatch(op.calls)
    [] OTHER -> NULL

\* for (const op of ops): the first operation that yields a key ends the loop
RECURSIVE FoundInOps(_)
FoundInOps(ops) ==
  IF ops = <<>> THEN NULL
  ELSE LET f == FoundInOp(Head(ops))
       IN IF f # NULL THEN f ELSE FoundInOps(Tail(ops))

\* the decoding of scanPayments: the direct decode, then the ERC-4337
\* fallback; found = FALSE is the log skipped with continue
ExtractEphemeralPubkey(input) ==
  LET d == DecodeFunctionData(input.data)
  IN IF input.shape = "call" /\ d.ok
     THEN IF d.functionName = "sendToStealth"
          THEN [found |-> TRUE, eph |-> d.eph, path |-> "direct"]
          ELSE [found |-> FALSE, eph |-> NULL, path |-> "direct"]
     ELSE LET f == IF input.shape = "handleOps" THEN FoundInOps(input.ops) ELSE NULL
          IN [found |-> f # NULL, eph |-> f, path |-> "fallback"]

\* the calls a user operation forwards, and those of a list of operations
ForwardedBy(op) ==
  CASE op.sel = "executeSingle" -> <<[target |-> op.dest, data |-> op.func]>>
    [] op.sel = "executeBatch" -> op.calls
    [] OTHER -> <<>>

RECURSIVE ForwardedByAll(_)
ForwardedByAll(ops) ==
  IF ops = <<>> THEN <<>> ELSE ForwardedBy(Head(ops)) \o ForwardedByAll(Tail(ops))

\* the sendToStealth calls a payload forwards to the payment contract
IsPaymentCall(c) ==
  ToLowerCase(c.target) = NinahContractAddress /\ c.data.fn = "sendToStealth"
PaymentCalls(input) == SelectSeq(ForwardedByAll(input.ops), IsPaymentCall)

\* whether some layer of the payload holds a sendToStealth call: the direct
\* call, or a call forwarded to the payment contract
YieldsPaymentCall(input) ==
  \/ input.shape = "call" /\ input.data.fn = "sendToStealth"
  \/ input.shape = "handleOps" /\ Len(PaymentCalls(input)) > 0

\* the ephemeralPubkey arguments of the sendToStealth calls of a payload
CallKeys(input) ==
  IF input.shape = "call"
  THEN IF input.data.fn = "sendToStealth" THEN {input.data.eph} ELSE {}
  ELSE IF input.shape = "handleOps"
       THEN {PaymentCalls(input)[i].data.eph : i \in 1..Len(PaymentCalls(input))}
       ELSE {}

\* the payload of one transaction goes through the decoding
DecodePayload ==
  /\ pipeline.stage = "payload"
  /\ pipeline' = [pipeline EXCEPT !.stage = "decoded",
                                  !.out = ExtractEphemeralPubkey(pipeline.input)]
  /\ UNCHANGED <<state, heap, vault, tasks, rng, calls, races, origin, lockedOver, scans, stealth, kdf,
               proof, sendPage, hookState>>

\* ------------------------------------------- useStealthPayments.scanPayments
ScanVars == <<state, heap, vault, tasks, rng, calls, races, origin, lockedOver, stealth, kdf, pipeline,
              proof, sendPage>>

\* the wallet address the hook is given, the senders of the logs (the
\* wallet in lower and in upper case, and another account), the
\* timestamps of the blocks, and the ephemeral key of the payment a log
\* reports
ScanWallet == "0xAb01"
WalletSpellings == {"0xab01", "0xAB01", "0xAb01"}
Senders == {"0xab01", "0xAB01", "0xcd02"}
Timestamps == {1, 2}
PaidWith == 2

\* the payloads getTransaction returns to a scan
ScanPayloads ==
  LET send == [fn |-> "sendToStealth", eph |-> PaidWith]
      single(dest, func) == [sel |-> "executeSingle", dest |-> dest, func |-> func,
                             calls |-> <<>>]
      batch(b) == [sel |-> "executeBatch", dest |-> NONE, func |-> NoCall, calls |-> b]
  IN {DirectPayload(send),
      DirectPayload([fn |-> "claimFromStealth", eph |-> NULL]),
      DirectPayload(NoCall),
      HandleOpsPayload(<<single("0x3C2d", send)>>),
      HandleOpsPayload(<<single("0x31f4", send)>>),
      HandleOpsPayload(<<batch(<<[target |-> "0x31f4", data |-> NoCall],
                                 [target |-> "0x3c2d", data |-> send]>>)>>),
      HandleOpsPayload(<<batch(<<[target |-> "0x31f4", data |-> send]>>)>>),
      HandleOpsPayload(<<single("0x3c2d", [fn |-> "sendToStealth", eph |-> 1]),
                         single("0x3c2d", send)>>),
      MalformedPayload}

\* scans are started in the order of their slots
ScanFree(s) ==
  /\ scans[s].pc = "idle"
  /\ \A q \in Scans : q < s => scans[q].pc # "idle"

RECURSIVE InsertByTimestamp(_, _)
\* e placed behind the entries that are newer than it, and before those of
\* its own timestamp that came after it in the list (the sort is stable)
InsertByTimestamp(e, sorted) ==
  IF sorted = <<>> THEN <<e>>
  ELSE IF Head(sorted).timestamp > e.timestamp
       THEN <<Head(sorted)>> \o InsertByTimestamp(e, Tail(sorted))
       ELSE <<e>> \o sorted

RECURSIVE SortDescending(_)
SortDescending(list) ==
  IF list = <<>> THEN <<>>
  ELSE InsertByTimestamp(Head(list), SortDescending(Tail(list)))

SortPaymentsKeepsOrder(list) == list

\* myPayments.sort((a, b) => b.timestamp - a.timestamp)
SortPayments(list) == SortDescending(list)

\* the setState of an early return or of the outer catch
Publish(sc, what) == [sc EXCEPT !.pc = "done", !.published = what,
                                !.error = (what = "error")]

\* the final setState: the sorted list, error: null, keysLocked: false
PublishList(sc) ==
  [sc EXCEPT !.pc = "done", !.published = "list", !.error = FALSE,
             !.transactions = SortPayments(sc.payments)]

\* the head of the for loop: the next log, or the end of the scan
NextLog(sc) == IF sc.left = 0 THEN PublishList(sc) ELSE [sc EXCEPT !.pc = "s_log"]

\* the log in hand is done with (pushed, skipped with continue, or dropped
\* by the catch of the loop body)
Finish(sc, outcome) ==
  NextLog([sc EXCEPT !.seen = Append(@, [sc.cur EXCEPT !.outcome = outcome]),
                     !.cur = NoLog])

\* myPayments.push of an entry for the log in hand
Push(sc, type) ==
  [sc EXCEPT !.payments = Append(@, [type |-> type, timestamp |-> sc.cur.timestamp,
                                     log |-> sc.cur.index])]

StateAfterGetKeysLocking(s) == LockState(s)

\* keyManager.isUnlocked() and keyManager.getKeys() return fields of the
\* state record and leave it as it is
StateAfterGetKeys(s) == s

\* the scans that are suspended at an await
Running == {q \in Scans : scans[q].pc \notin {"idle", "done"}}

\* what a step of the scan s does to the state of the hook: the setState
\* that opens the try block as the scan starts, and the setState of the
\* return it has reached (the reset without a wallet, the locked keys, the
\* catch, the final list)
SetState(prev, s, before, after) ==
  LET opened == IF before.pc = "idle" /\ (after.pc # "done" \/ after.published = "error")
                THEN [prev EXCEPT !.loading = TRUE, !.scanning = TRUE, !.error = FALSE,
                                  !.keysLocked = FALSE, !.by = s]
                ELSE prev
  IN IF after.pc # "done" \/ before.pc = "done" THEN opened
     ELSE CASE after.published = "reset" ->
                 [transactions |-> <<>>, loading |-> FALSE, scanning |-> FALSE,
                  error |-> FALSE, keysLocked |-> TRUE, by |-> s]
            [] after.published = "keysLocked" ->
                 [opened EXCEPT !.loading = FALSE, !.scanning = FALSE, !.keysLocked = TRUE,
                                !.error = FALSE, !.by = s]
            [] after.published = "error" ->
                 [opened EXCEPT !.loading = FALSE, !.scanning = FALSE, !.error = TRUE,
                                !.by = s]
            [] after.published = "list" ->
                 [transactions |-> after.transactions, loading |-> FALSE,
                  scanning |-> FALSE, error |-> FALSE, keysLocked |-> FALSE, by |-> s]

\* entry of scanPayments: without a wallet it publishes the empty state,
\* with the keys locked it publishes keysLocked, and returns; otherwise it
\* takes the KeySet from getKeys() and keeps its buffers over the awaits
\* that follow.  older are the scans in flight as this one starts
ScanStart(s, hasWallet) ==
  /\ ScanFree(s)
  /\ LET r == GetKeys(state)
     IN scans' = [scans EXCEPT ![s] =
          IF ~hasWallet THEN Publish(@, "reset")
          ELSE IF ~state.isUnlocked THEN Publish(@, "keysLocked")
          ELSE IF ~r.ok THEN Publish(@, "error")
          ELSE [@ EXCEPT !.pc = "s_block", !.keys = r.keys, !.wallet = ScanWallet,
                         !.older = Running]]
  /\ state' = IF hasWallet THEN StateAfterGetKeys(state) ELSE state
  /\ hookState' = SetState(hookState, s, scans[s], scans'[s])
  /\ UNCHANGED <<heap, vault, tasks, rng, calls, races, origin, lockedOver, stealth, kdf, pipeline, proof,
               sendPage>>

\* await publicClient.getBlockNumber() resolves or throws
ScanBlock(s, ok) ==
  /\ scans[s].pc = "s_block"
  /\ scans' = [scans EXCEPT ![s] = IF ok THEN [@ EXCEPT !.pc = "s_logs"]
                                   ELSE Publish(@, "error")]
  /\ hookState' = SetState(hookState, s, scans[s], scans'[s])
  /\ UNCHANGED ScanVars

\* await publicClient.getLogs() resolves with n events, or throws
ScanLogs(s, ok, n) ==
  /\ scans[s].pc = "s_logs"
  /\ scans' = [scans EXCEPT ![s] = IF ok THEN NextLog([@ EXCEPT !.logs = n, !.left = n])
                                   ELSE Publish(@, "error")]
  /\ hookState' = SetState(hookState, s, scans[s], scans'[s])
  /\ UNCHANGED ScanVars

IsSentByUpperCaseBlind(sender, wallet) == sender = ToLowerCase(wallet)

\* senderAddress === currentWallet, both in lower case
IsSentBy(sender, wallet) == ToLowerCase(sender) = ToLowerCase(wallet)

\* the loop takes the next log: one sent by the wallet goes to getBlock,
\* any other to getTransaction; forMe says whether the payment of the log
\* was generated for the keys of this user
ScanLog(s, sender, forMe) ==
  /\ scans[s].pc = "s_log"
  /\ scans' = [scans EXCEPT ![s] =
       LET sent == IsSentBy(sender, @.wallet)
       IN [@ EXCEPT !.left = @ - 1,
                    !.cur = [NoLog EXCEPT !.index = Len(scans[s].seen) + 1,
                                          !.sender = sender,
                                          !.self = (sender \in WalletSpellings),
                                          !.forMe = forMe],
                    !.pc = IF sent THEN "s_sentBlock" ELSE "s_tx"]]
  /\ hookState' = SetState(hookState, s, scans[s], scans'[s])
  /\ UNCHANGED ScanVars

\* a sent log: await getBlock resolves with the timestamp, or throws
ScanSentBlock(s, ok, timestamp) ==
  /\ scans[s].pc = "s_sentBlock"
  /\ scans' = [scans EXCEPT ![s] =
       IF ok THEN [@ EXCEPT !.pc = "s_sentRead", !.cur.timestamp = timestamp]
       ELSE Finish(@, "failed")]
  /\ hookState' = SetState(hookState, s, scans[s], scans'[s])
  /\ UNCHANGED ScanVars

\* a sent log: await readContract resolves and the entry is pushed
ScanSentRead(s, ok) ==
  /\ scans[s].pc = "s_sentRead"
  /\ scans' = [scans EXCEPT ![s] =
       IF ok THEN Finish(Push(@, "sent"), "sent") ELSE Finish(@, "failed")]
  /\ hookState' = SetState(hookState, s, scans[s], scans'[s])
  /\ UNCHANGED ScanVars

\* the viewing key buffer that Address.checkStealthPayment is handed
ScanCheck(h, sc) == IF IsZero(h[sc.keys].metaViewingPriv) THEN "wiped" ELSE "live"

\* Address.checkStealthPayment reads the key buffers it is handed
HeapAfterCheck(h, k) == h

\* await publicClient.getTransaction() resolves with the payload (or
\* throws); the ephemeral key is extracted or the log is skipped; the
\* stealth check is made with the buffers taken at entry.  A payment is
\* recognised with the key of its own call and the viewing key intact
\* (with a zeroed key the check throws or derives another address, and the
\* log is left out either way)
ScanTx(s, ok, payload) ==
  /\ scans[s].pc = "s_tx"
  /\ LET x == ExtractEphemeralPubkey(payload)
         chk == ScanCheck(heap, scans[s])
         mine == scans[s].cur.forMe /\ x.eph = PaidWith /\ chk = "live"
         fetched == [scans[s] EXCEPT !.cur.fetched = TRUE,
                                     !.cur.yields = YieldsPaymentCall(payload),
                                     !.cur.carried = CallKeys(payload)]
         checked == [fetched EXCEPT !.cur.checked = TRUE, !.cur.passed = x.eph,
                                    !.check = chk,
                                    !.isForMe = mine,
                                    !.held = (state.keys = scans[s].keys)]
     IN /\ scans' = [scans EXCEPT ![s] =
             IF ~ok THEN Finish(@, "failed")
             ELSE IF ~x.found THEN Finish(fetched, "skipped")
             ELSE IF mine THEN [checked EXCEPT !.pc = "s_recvBlock"]
             ELSE Finish(checked, "notMine")]
        /\ heap' = IF ok /\ x.found THEN HeapAfterCheck(heap, scans[s].keys) ELSE heap
  /\ hookState' = SetState(hookState, s, scans[s], scans'[s])
  /\ UNCHANGED <<state, vault, tasks, rng, calls, races, origin, lockedOver, stealth, kdf, pipeline, proof,
               sendPage>>

\* a received payment: await getBlock resolves with the timestamp, or throws
ScanRecvBlock(s, ok, timestamp) ==
  /\ scans[s].pc = "s_recvBlock"
  /\ scans' = [scans EXCEPT ![s] =
       IF ok THEN [@ EXCEPT !.pc = "s_recvRead", !.cur.timestamp = timestamp]
       ELSE Finish(@, "failed")]
  /\ hookState' = SetState(hookState, s, scans[s], scans'[s])
  /\ UNCHANGED ScanVars

\* a received payment: await readContract resolves and the entry is pushed
ScanRecvRead(s, ok) ==
  /\ scans[s].pc = "s_recvRead"
  /\ scans' = [scans EXCEPT ![s] =
       IF ok THEN Finish(Push(@, "received"), "received") ELSE Finish(@, "failed")]
  /\ hookState' = SetState(hookState, s, scans[s], scans'[s])
  /\ UNCHANGED ScanVars

\* the hook has rendered what the scan published; once no scan is left the
\* page is closed, and the next mount starts from the initial useState
ScanReturn(s) ==
  /\ scans[s].pc = "done"
  /\ scans' = [q \in Scans |-> IF q = s THEN IdleScan
                               ELSE [scans[q] EXCEPT !.older = @ \ {s}]]
  /\ hookState' = IF \A q \in Scans \ {s} : scans[q].pc = "idle"
                   THEN InitialHookState ELSE hookState
  /\ UNCHANGED ScanVars

\* ------------------------------------------- lib/crypto/kdf called directly
\* one call is made in a behaviour: kdf holds it once it has returned
KdfVars == <<state, heap, vault, tasks, rng, calls, races, origin, lockedOver, scans, stealth, pipeline, proof, sendPage, hookState>>

\* the salts, configs, keys and purpose labels the functions are called with
SaltLengths == {0, 8, 15, 16, 17, 32}
Salts == {[id |-> i, len |-> n] : i \in 1..MaxSalt, n \in SaltLengths}
Configs == {DEFAULT_ARGON2_CONFIG,
            [memoryCost |-> 1024, timeCost |-> 1, parallelism |-> 1, hashLength |-> 32]}
KeyInputs == {[id |-> i, len |-> n] : i \in 1..2, n \in {MASTER_KEY_LENGTH - 1, MASTER_KEY_LENGTH}}
Purposes == {"storage-encryption", "meta-viewing-key", "meta-spending-key",
             "unlock-key", "a", "b"}
Derivations == {[kind |-> "master", purpose |-> NONE], [kind |-> "unlock", purpose |-> NONE]}
                 \cup {[kind |-> "sub", purpose |-> p] : p \in Purposes}

\* one of the three HKDF derivations applied to the key k
Derive(k, d) ==
  CASE d.kind = "master" -> [ok |-> TRUE, err |-> NONE, key |-> KdfMasterKey(k)]
    [] d.kind = "unlock" -> [ok |-> TRUE, err |-> NONE, key |-> KdfUnlockKey(k)]
    [] OTHER -> KdfDeriveSubKey(k, d.purpose, MASTER_KEY_LENGTH)

\* deriveMasterKey called on two pairs of inputs
CallDeriveMasterKey(h1, s1, h2, s2) ==
  /\ kdf.op = NONE
  /\ kdf' = [op |-> "deriveMasterKey", in |-> <<h1, s1, h2, s2>>,
             out |-> <<KdfDeriveMasterKey(h1, s1), KdfDeriveMasterKey(h2, s2)>>]
  /\ UNCHANGED KdfVars

\* derivePasswordHash called without a config
CallDerivePasswordHash(password, salt) ==
  /\ kdf.op = NONE
  /\ kdf' = [op |-> "derivePasswordHash", in |-> <<password, salt, NONE>>,
             out |-> DerivePasswordHash(password, salt)]
  /\ UNCHANGED KdfVars

\* derivePasswordHash called with a config
CallDerivePasswordHashWith(password, salt, config) ==
  /\ kdf.op = NONE
  /\ kdf' = [op |-> "derivePasswordHash", in |-> <<password, salt, config>>,
             out |-> DerivePasswordHashWith(password, salt, config)]
  /\ UNCHANGED KdfVars

\* deriveUnlockKey: the password hash it asks for, then the HKDF step
CallDeriveUnlockKey(password, unlockSalt) ==
  /\ kdf.op = NONE
  /\ LET ph == DerivePasswordHash(password, unlockSalt)
     IN kdf' = [op |-> "deriveUnlockKey", in |-> <<password, unlockSalt>>,
                out |-> [ok |-> ph.ok, err |-> ph.err, argon2 |-> ph.argon2,
                         key |-> IF ph.ok THEN KdfUnlockKey(ph.hash) ELSE NONE]]
  /\ UNCHANGED KdfVars

\* generateArgon2Salt(n); id is what the random source returns if asked
CallGenerateArgon2Salt(n, id) ==
  /\ kdf.op = NONE
  /\ kdf' = [op |-> "generateArgon2Salt", in |-> <<n, id>>,
             out |-> GenerateArgon2Salt(n, id)]
  /\ UNCHANGED KdfVars

\* two derivations made from the same key
CallDerivations(k, d1, d2) ==
  /\ kdf.op = NONE
  /\ kdf' = [op |-> "derive", in |-> <<k, d1, d2>>,
             out |-> <<Derive(k, d1), Derive(k, d2)>>]
  /\ UNCHANGED KdfVars

\* ------------------------------------------------- stealth address engine
\* the curve group is the additive group of the integers modulo GroupOrder:
\* a point is a number, k.P is k * P and G is the base point
GeneratorG == 3
Scalars == 1..(GroupOrder - 1)
ScalarMul(k, P) == (k * P) % GroupOrder
PointAdd(P, Q) == (P + Q) % GroupOrder

\* the shared point hashed to a scalar, and the address encoding of a point
HashToScalar(S) == (S * S + 1) % GroupOrder
AddressOfPoint(P) == (2 * P + 1) % GroupOrder

\* Address.generateStealthPayment with the ephemeral scalar r it samples:
\* R = r.G, S = r.viewingPub, h = hash(S), P = spendingPub + h.G
GenerateStealthPayment(metaViewingPub, metaSpendingPub, r) ==
  LET S == ScalarMul(r, metaViewingPub)
      P == PointAdd(metaSpendingPub, ScalarMul(HashToScalar(S), GeneratorG))
  IN [stealthAddress |-> AddressOfPoint(P),
      ephemeralPubkey |-> ScalarMul(r, GeneratorG),
      shared |-> S]

CheckSharedPointAdded(viewingPriv, R) == PointAdd(viewingPriv, R)

\* the shared point on the recipient's side: S' = v.R
CheckSharedPoint(viewingPriv, R) == ScalarMul(viewingPriv, R)

\* Address.checkStealthPayment: a zero ephemeral key is rejected; S' = v.R,
\* h' = hash(S'), P' = spendingPub + h'.G, isForMe iff the address of P' is
\* the candidate
CheckStealthPayment(R, viewingPriv, metaSpendingPub, candidate) ==
  IF R = 0
  THEN [ok |-> FALSE, isForMe |-> FALSE, derivedAddress |-> 0, shared |-> 0]
  ELSE LET S == CheckSharedPoint(viewingPriv, R)
           P == PointAdd(metaSpendingPub, ScalarMul(HashToScalar(S), GeneratorG))
       IN [ok |-> TRUE, isForMe |-> AddressOfPoint(P) = candidate,
           derivedAddress |-> AddressOfPoint(P), shared |-> S]

\* the sender generates a payment for the recipient's public meta keys
StealthGenerate ==
  /\ stealth.stage = "keys"
  /\ LET g == GenerateStealthPayment(ScalarMul(stealth.viewingPriv, GeneratorG),
                                     ScalarMul(stealth.spendingPriv, GeneratorG),
                                     stealth.r)
     IN stealth' = [stealth EXCEPT !.stage = "generated",
                      !.stealthAddress = g.stealthAddress,
                      !.ephemeralPubkey = g.ephemeralPubkey,
                      !.sharedSender = g.shared]
  /\ UNCHANGED <<state, heap, vault, tasks, rng, calls, races, origin, lockedOver, scans, kdf, pipeline, proof, sendPage, hookState>>

\* the recipient checks the published address and ephemeral key
StealthCheck ==
  /\ stealth.stage = "generated"
  /\ LET c == CheckStealthPayment(stealth.ephemeralPubkey, stealth.viewingPriv,
                                  ScalarMul(stealth.spendingPriv, GeneratorG),
                                  stealth.stealthAddress)
     IN stealth' = [stealth EXCEPT !.stage = "checked", !.isForMe = c.isForMe,
                      !.derivedAddress = c.derivedAddress,
                      !.sharedRecipient = c.shared]
  /\ UNCHANGED <<state, heap, vault, tasks, rng, calls, races, origin, lockedOver, scans, kdf, pipeline, proof, sendPage, hookState>>

\* ------------------------------------------------ mock username proofs
\* strings are sequences of characters; the characters that occur
HexChars == <<"0", "1", "2", "3", "4", "5", "6", "7", "8", "9",
              "a", "b", "c", "d", "e", "f">>
HexCharSet == {HexChars[i] : i \in 1..16}
DigitValue(c) == (CHOOSE i \in 1..16 : HexChars[i] = c) - 1
Prefix0x == <<"0", "x">>

\* String.prototype.slice(a, b) and slice(a), for a and b not negative
Slice(s, a, b) == SubSeq(s, a + 1, IF b < Len(s) THEN b ELSE Len(s))
SliceFrom(s, a) == SubSeq(s, a + 1, Len(s))

\* n copies of the character c
Repeat(c, n) == <<>> \o [i \in 1..n |-> c]

\* viem isHex: 0x followed by hex digits only
IsHex(s) ==
  /\ Len(s) >= 2
  /\ s[1] = "0" /\ s[2] = "x"
  /\ \A i \in 3..Len(s) : s[i] \in HexCharSet

\* the UTF-8 code of a character of a username
CharCode(c) ==
  CASE c = "0" -> 48 [] c = "1" -> 49 [] c = "6" -> 54
    [] c = "a" -> 97 [] c = "b" -> 98 [] c = "x" -> 120

\* viem stringToBytes (TextEncoder)
StringToBytes(s) == <<>> \o [i \in 1..Len(s) |-> CharCode(s[i])]

\* viem hexToBytes: the digits behind 0x, padded on the left to an even
\* number, two digits a byte
ViemHexToBytes(hex) ==
  LET d == SliceFrom(hex, 2)
      p == IF Len(d) % 2 = 1 THEN <<"0">> \o d ELSE d
  IN <<>> \o [i \in 1..(Len(p) \div 2) |->
                16 * DigitValue(p[2 * i - 1]) + DigitValue(p[2 * i])]

\* viem toBytes of a string: a hex string is read as hex, any other as text
ToBytes(value) == IF IsHex(value) THEN ViemHexToBytes(value) ELSE StringToBytes(value)

\* Bytes.bytesToHex(bytes): 0x and two lower-case digits a byte
BytesToHex(bytes) ==
  Prefix0x \o [i \in 1..(2 * Len(bytes)) |->
                 LET b == bytes[(i + 1) \div 2]
                 IN HexChars[(IF i % 2 = 1 THEN b \div 16 ELSE b % 16) + 1]]

\* viem keccak256 of bytes: the 32-byte digest as a hex string.  The digit
\* at position i is made of the bytes at i from the front and at i from the
\* back, so that every byte of a message of up to 128 bytes tells
Keccak256Hex(bytes) ==
  LET n == Len(bytes)
  IN Prefix0x \o [i \in 1..64 |->
       IF n = 0 THEN HexChars[(i % 16) + 1]
       ELSE LET front == bytes[((i - 1) % n) + 1]
                back == bytes[n - ((i - 1) % n)]
            IN HexChars[((front * (i + 1) + back * 7 + n + i * i) % 16) + 1]]

\* viem isAddress: 0x and 40 hex digits (lower case, so without a checksum)
IsAddress(a) == IsHex(a) /\ Len(a) = 42

\* encodeAbiParameters of one static value: the 64 digits of its word; a
\* bytes32 that is not 32 bytes long and an invalid address throw
EncodeParam(type, value) ==
  CASE type = "bytes32" ->
         IF IsHex(value) /\ Len(value) = 66
         THEN [ok |-> TRUE, word |-> SliceFrom(value, 2)]
         ELSE [ok |-> FALSE, word |-> <<>>]
    [] type = "address" ->
         IF IsAddress(value)
         THEN [ok |-> TRUE, word |-> Repeat("0", 24) \o SliceFrom(value, 2)]
         ELSE [ok |-> FALSE, word |-> <<>>]

RECURSIVE EncodeWords(_, _)
EncodeWords(types, values) ==
  IF types = <<>> THEN <<>>
  ELSE EncodeParam(Head(types), Head(values)).word \o EncodeWords(Tail(types), Tail(values))

\* encodeAbiParameters(parseAbiParameters(types), values) for static types
EncodeAbiParameters(types, values) ==
  IF \A i \in 1..Len(types) : EncodeParam(types[i], values[i]).ok
  THEN [ok |-> TRUE, hex |-> Prefix0x \o EncodeWords(types, values)]
  ELSE [ok |-> FALSE, hex |-> <<>>]

ExtractCommitmentFirstWord(publicValues) ==
  LET hex == SliceFrom(publicValues, 2)
  IN Prefix0x \o Slice(hex, 0, 64)

\* extractCommitmentFromPublicValues
ExtractCommitmentFromPublicValues(publicValues) ==
  LET hex == SliceFrom(publicValues, 2)
  IN Prefix0x \o Slice(hex, 64, 128)

\* extractUsernameHashFromPublicValues
ExtractUsernameHashFromPublicValues(publicValues) ==
  LET hex == SliceFrom(publicValues, 2)
  IN Prefix0x \o Slice(hex, 0, 64)

\* what generateUsernameProof computes before its delay: the username hash,
\* the commitment and the public values; ok = FALSE is an encoding that
\* throws.  The object style returns the commitment as well
UsernameProof(style, username, walletAddress, secretBytes) ==
  LET usernameHash == Keccak256Hex(ToBytes(username))
      inner == EncodeAbiParameters(<<"bytes32", "address", "bytes32">>,
                                   <<usernameHash, walletAddress, BytesToHex(secretBytes)>>)
      commitment == Keccak256Hex(ViemHexToBytes(inner.hex))
      publicValues == EncodeAbiParameters(<<"bytes32", "bytes32">>,
                                          <<usernameHash, commitment>>)
  IN IF ~inner.ok THEN [ok |-> FALSE, public_values |-> <<>>, commitment |-> <<>>]
     ELSE [ok |-> TRUE, public_values |-> publicValues.hex,
           commitment |-> IF style = "object" THEN commitment ELSE <<>>]

\* the usernames, wallets and secrets the function is called with: a
\* username that is text, one that reads as hex, a wallet that is not an
\* address, a secret that is not 32 bytes
Usernames == {<<"a">>, <<"b">>, <<"a", "b">>, <<"0", "x", "6", "1">>, <<"x", "0">>}
ProofWallets == {Prefix0x \o Repeat("a", 40), Prefix0x \o Repeat("1", 40),
                 Prefix0x \o Repeat("a", 39)}
RandomSecrets == {Repeat(1, 32), Repeat(255, 32)}
Secrets == RandomSecrets \cup {Repeat(7, 31)}

ProofVars == <<state, heap, vault, tasks, rng, calls, races, origin, lockedOver, scans, stealth, kdf,
               pipeline, sendPage, hookState>>

\* generateUsernameProof(username, wallet, secret) is called: it computes
\* the values and waits, or its promise is rejected
GenerateUsernameProof(username, wallet, secret) ==
  /\ proof.stage = NONE
  /\ LET r == UsernameProof("parameters", username, wallet, secret)
     IN proof' = [proof EXCEPT !.stage = IF r.ok THEN "delay" ELSE "rejected",
                               !.style = "parameters", !.username = username,
                               !.wallet = wallet, !.secret = secret, !.response = r]
  /\ UNCHANGED ProofVars

\* generateUsernameProof({username, wallet}): the secret is 32 random bytes
GenerateUsernameProofObject(username, wallet, random) ==
  /\ proof.stage = NONE
  /\ LET r == UsernameProof("object", username, wallet, random)
     IN proof' = [proof EXCEPT !.stage = IF r.ok THEN "delay" ELSE "rejected",
                               !.style = "object", !.username = username,
                               !.wallet = wallet, !.secret = random, !.response = r]
  /\ UNCHANGED ProofVars

\* the delay is over and the response is returned
ProofReturned ==
  /\ proof.stage = "delay"
  /\ proof' = [proof EXCEPT !.stage = "returned"]
  /\ UNCHANGED ProofVars

\* the caller applies extractUsernameHashFromPublicValues to the response
ExtractUsernameHash ==
  /\ proof.stage = "returned"
  /\ "usernameHash" \notin proof.extracted
  /\ proof' = [proof EXCEPT !.extracted = @ \cup {"usernameHash"},
                 !.usernameHash = ExtractUsernameHashFromPublicValues(proof.response.public_values)]
  /\ UNCHANGED ProofVars

\* the caller applies extractCommitmentFromPublicValues to the response
ExtractCommitment ==
  /\ proof.stage = "returned"
  /\ "commitment" \notin proof.extracted
  /\ proof' = [proof EXCEPT !.extracted = @ \cup {"commitment"},
                 !.commitment = ExtractCommitmentFromPublicValues(proof.response.public_values)]
  /\ UNCHANGED ProofVars

\* ------------------------------------------------------ SendPage.handleSend
SendVars == <<state, heap, vault, tasks, rng, calls, races, origin, lockedOver, scans, stealth, kdf,
              pipeline, proof, hookState>>

\* what is typed into the recipient field (an address, a username with and
\* without @, a string of 41 characters) and into the amount field
Recipients == {Prefix0x \o Repeat("a", 40), <<"@", "a">>, <<"a">>,
               Prefix0x \o Repeat("a", 39)}
Amounts == {"1", "2", "x"}
Registrants == {"0xa1", "0xb2"}
RegisteredLogs == {<<>>} \cup {<<u>> : u \in Registrants}
                         \cup {<<u, v>> : u \in Registrants, v \in Registrants}
Allowances == {0, 1000000, 2000000}

\* recipient.startsWith('0x') && recipient.length === 42
IsDirectAddress(recipient) ==
  Len(recipient) = 42 /\ recipient[1] = "0" /\ recipient[2] = "x"

\* parseUnits(amount, 6): throws on a string that is not a decimal number
ParseUnits(amount) ==
  CASE amount = "1" -> [ok |-> TRUE, value |-> 1000000]
    [] amount = "2" -> [ok |-> TRUE, value |-> 2000000]
    [] OTHER -> [ok |-> FALSE, value |-> 0]

\* the button is enabled
SendEnabled(sp, recipient, amount) ==
  /\ recipient # <<>>
  /\ amount # ""
  /\ sp.sendStatus \in {"idle", "success", "error"}

\* the catch of handleSend; at is the step that threw
SendFailed(sp, at) ==
  [sp EXCEPT !.pc = "idle", !.sendStatus = "error", !.sendError = TRUE, !.failedAt = at]

IsRegisteredAlways(metaKeysResult) == TRUE

\* metaKeysResult.registered
IsRegistered(metaKeysResult) == metaKeysResult.registered

NeedsApproveNever(currentAllowance, amountInWei) == FALSE

\* currentAllowance < amountInWei
NeedsApprove(currentAllowance, amountInWei) == currentAllowance < amountInWei

\* a click on the button: nothing without a smart wallet client; else the
\* status is resolving, and an address goes to getMetaKeys, a username to
\* getBlockNumber
HandleSend(hasClient, recipient, amount) ==
  /\ SendEnabled(sendPage, recipient, amount)
  /\ sendPage' =
       IF ~hasClient THEN sendPage
       ELSE [NoSend EXCEPT !.sendStatus = "resolving", !.amount = amount,
                           !.recipient = recipient,
                           !.recipientAddress = IF IsDirectAddress(recipient)
                                                THEN "typed" ELSE NONE,
                           !.pc = IF IsDirectAddress(recipient) THEN "h_meta" ELSE "h_block"]
  /\ UNCHANGED SendVars

\* await publicClient.getBlockNumber()
SendBlockNumber(ok) ==
  /\ sendPage.pc = "h_block"
  /\ sendPage' = IF ok THEN [sendPage EXCEPT !.pc = "h_logs"]
                 ELSE SendFailed(sendPage, "getBlockNumber")
  /\ UNCHANGED SendVars

\* await publicClient.getLogs(): without a UsernameRegistered event the
\* username is not found; else the user of the latest event is the recipient
SendGetLogs(ok, logs) ==
  /\ sendPage.pc = "h_logs"
  /\ sendPage' = IF ~ok THEN SendFailed(sendPage, "getLogs")
                 ELSE IF Len(logs) = 0 THEN SendFailed(sendPage, "notFound")
                 ELSE [sendPage EXCEPT !.pc = "h_meta",
                                       !.recipientAddress = logs[Len(logs)]]
  /\ UNCHANGED SendVars

\* await getMetaKeys(recipientAddress); a registered recipient: the stealth
\* payment is generated and the amount parsed (either may throw), and the
\* allowance is asked for
SendMetaKeys(ok, metaKeysResult, generated) ==
  /\ sendPage.pc = "h_meta"
  /\ LET amountInWei == ParseUnits(sendPage.amount)
         read == [sendPage EXCEPT !.registered = IF metaKeysResult.registered
                                                  THEN "registered" ELSE "unregistered"]
     IN sendPage' =
          IF ~ok THEN SendFailed(sendPage, "getMetaKeys")
          ELSE IF ~IsRegistered(metaKeysResult) THEN SendFailed(read, "unregistered")
          ELSE IF ~generated THEN SendFailed([read EXCEPT !.sendStatus = "generating"],
                                             "generateStealthPayment")
          ELSE IF ~amountInWei.ok THEN SendFailed([read EXCEPT !.sendStatus = "approving"],
                                                  "parseUnits")
          ELSE [read EXCEPT !.sendStatus = "approving", !.pc = "h_allowance",
                            !.amountInWei = amountInWei.value]
  /\ UNCHANGED SendVars

\* await readContract(allowance): an allowance below the amount leads to
\* the approve transaction, any other to the payment
SendAllowance(ok, currentAllowance) ==
  /\ sendPage.pc = "h_allowance"
  /\ sendPage' =
       IF ~ok THEN SendFailed(sendPage, "allowance")
       ELSE IF NeedsApprove(currentAllowance, sendPage.amountInWei)
            THEN [sendPage EXCEPT !.allowanceRead = TRUE, !.allowance = currentAllowance,
                                  !.pc = "h_approveTx"]
            ELSE [sendPage EXCEPT !.allowanceRead = TRUE, !.allowance = currentAllowance,
                                  !.pc = "h_sendTx",
                                  !.sendStatus = "sending"]
  /\ UNCHANGED SendVars

\* await smartWalletClient.sendTransaction(approve)
SendApproveTx(ok) ==
  /\ sendPage.pc = "h_approveTx"
  /\ sendPage' = IF ok THEN [sendPage EXCEPT !.pc = "h_approveReceipt",
                                             !.submitted = Append(@, "approve")]
                 ELSE SendFailed(sendPage, "approve")
  /\ UNCHANGED SendVars

\* await publicClient.waitForTransactionReceipt(approveTxHash)
SendApproveReceipt(ok) ==
  /\ sendPage.pc = "h_approveReceipt"
  /\ sendPage' = IF ok THEN [sendPage EXCEPT !.pc = "h_sendTx", !.approveAwaited = TRUE,
                                             !.sendStatus = "sending"]
                 ELSE SendFailed(sendPage, "approveReceipt")
  /\ UNCHANGED SendVars

\* await smartWalletClient.sendTransaction(sendToStealth)
SendStealthTx(ok) ==
  /\ sendPage.pc = "h_sendTx"
  /\ sendPage' = IF ok THEN [sendPage EXCEPT !.pc = "h_sendReceipt",
                                             !.submitted = Append(@, "sendToStealth")]
                 ELSE SendFailed(sendPage, "sendToStealth")
  /\ UNCHANGED SendVars

\* await publicClient.waitForTransactionReceipt(sendTxHash)
SendStealthReceipt(ok) ==
  /\ sendPage.pc = "h_sendReceipt"
  /\ sendPage' = IF ok THEN [sendPage EXCEPT !.pc = "idle", !.txHash = TRUE,
                                             !.sendStatus = "success"]
                 ELSE SendFailed(sendPage, "sendReceipt")
  /\ UNCHANGED SendVars

\* ------------------------------------------------------ specifications
\* what lives outside the key manager
hookVars == <<scans, stealth, kdf, pipeline, proof, sendPage, hookState>>
hooks == <<hookVars, lockedOver>>

\* accounts are interchangeable and so are the passwords that are not
\* empty: the first call names account 1, and its passwords are named in
\* the order 1, 2 (every other run is one of these with the names swapped)
FirstCall(a, p, q) == calls = 0 => (a = 1 /\ p <= 1 /\ q <= p + 1)

\* a call takes the first free task slot; MaxCalls calls are made in all
Call(t) ==
  /\ calls < MaxCalls
  /\ calls' = calls + 1
  /\ \A u \in Tasks : u < t => tasks[u].pc # "idle"
  /\ \/ \E pw \in Passwords, u \in Users :
           /\ FirstCall(u.walletAddress, pw, pw)
           /\ CallInitialize(t, pw, u.walletAddress, u.userIdentifier, u.authMethod)
     \/ \E pw \in Passwords, a \in Addr :
           FirstCall(a, pw, pw) /\ CallUnlock(t, pw, a)
     \/ \E old \in Passwords, new \in Passwords :
           FirstCall(1, old, new) /\ CallUpdatePassword(t, old, new)

Step(t) ==
  /\ UNCHANGED calls
  /\ \/ InitExists(t)
     \/ InitHash(t)
     \/ \E signerOk \in BOOLEAN : InitSign(t, signerOk)
     \/ InitUnlockKey(t)
     \/ InitEncrypt(t)
     \/ \E saveOk \in BOOLEAN : InitSave(t, saveOk)
     \/ InitFinish(t)
     \/ UnlockLoad(t)
     \/ UnlockKey(t)
     \/ UnlockDecrypt(t)
     \/ UpdAfterUnlock(t)
     \/ UpdLoad(t)
     \/ UpdUnlockKey(t)
     \/ UpdEncrypt(t)
     \/ \E saveOk \in BOOLEAN : UpdSave(t, saveOk)
     \/ UpdFinish(t)

Quiet == \A t \in Tasks : tasks[t].pc = "idle"

Busy == \E t \in Tasks : InFlight(t)

\* the outcome of a settled call is seen by its caller before anything else
\* runs
Settled == \A t \in Tasks : tasks[t].pc # "done"

\* a call, a lock() or a deleteKeys made while another call is suspended at
\* an await; MaxRaces of them are made in all
Overlap ==
  /\ Settled
  /\ IF Busy THEN races < MaxRaces /\ races' = races + 1 ELSE UNCHANGED races

\* calls arrive at any time: async calls overlap at their awaits
Next ==
  \/ Overlap /\ UNCHANGED hooks /\ \E t \in Tasks : Call(t)
  \/ Settled /\ UNCHANGED <<races, hooks>> /\ \E t \in Tasks : Step(t)
  \/ UNCHANGED <<races, calls, hookVars>> /\ \E t \in Tasks : Return(t)
  \/ Overlap /\ UNCHANGED <<calls, hookVars>> /\ Lock
  \/ Overlap /\ UNCHANGED <<calls, hooks>> /\ \E a \in Addr : DeleteKeys(a)

Spec == Init /\ [][Next]_vars

\* the caller serializes: a call is made only when the one before it has
\* settled and its outcome has been seen
NextSeq ==
  \/ Quiet /\ UNCHANGED <<races, hooks>> /\ \E t \in Tasks : Call(t)
  \/ UNCHANGED <<races, hooks>> /\ \E t \in Tasks : Step(t)
  \/ UNCHANGED <<races, calls, hookVars>> /\ \E t \in Tasks : Return(t)
  \/ Quiet /\ UNCHANGED <<races, calls, hookVars>> /\ Lock
  \/ Quiet /\ UNCHANGED <<races, calls, hooks>> /\ \E a \in Addr : DeleteKeys(a)

SpecSeq == Init /\ [][NextSeq]_vars

\* serialized calls over a store whose records can be damaged between calls
NextEnv ==
  \/ NextSeq
  \/ Quiet /\ UNCHANGED <<races, calls, hooks>>
       /\ \E a \in Addr, how \in {"ciphertext", "plaintext"} : StorageDamage(a, how)

SpecEnv == Init /\ [][NextEnv]_vars

\* no scan is in flight
ScansIdle == \A s \in Scans : scans[s].pc = "idle"

\* the manager is called once and then locked or left alone, and payment
\* scans run one after the other; lock() can be called while a scan is
\* suspended at an await
NextScan ==
  \/ ScansIdle /\ NextSeq /\ (calls = 0 \/ calls' = calls)
  \/ ~ScansIdle /\ Quiet /\ UNCHANGED <<races, calls, hookVars>> /\ Lock
  \/ ScansIdle /\ Quiet /\ \E s \in Scans, hasWallet \in BOOLEAN : ScanStart(s, hasWallet)
  \/ \E s \in Scans, ok \in BOOLEAN : ScanBlock(s, ok)
  \/ \E s \in Scans, ok \in BOOLEAN, n \in 0..MaxLogs : ScanLogs(s, ok, n)
  \/ \E s \in Scans, sender \in Senders, forMe \in BOOLEAN : ScanLog(s, sender, forMe)
  \/ \E s \in Scans, ok \in BOOLEAN, timestamp \in Timestamps : ScanSentBlock(s, ok, timestamp)
  \/ \E s \in Scans, ok \in BOOLEAN : ScanSentRead(s, ok)
  \/ \E s \in Scans, ok \in BOOLEAN, payload \in ScanPayloads : ScanTx(s, ok, payload)
  \/ \E s \in Scans, ok \in BOOLEAN, timestamp \in Timestamps : ScanRecvBlock(s, ok, timestamp)
  \/ \E s \in Scans, ok \in BOOLEAN : ScanRecvRead(s, ok)
  \/ \E s \in Scans : ScanReturn(s)

SpecScan == Init /\ [][NextScan]_vars

\* the manager is called once, and scans are started while earlier ones are
\* in flight (the wallet address changes, or refetch is called); the logs
\* found are payments sent by the wallet, and every read returns
NextRefetch ==
  \/ ScansIdle /\ NextSeq /\ (calls = 0 \/ calls' = calls)
  \/ Quiet /\ \E s \in Scans, hasWallet \in BOOLEAN : ScanStart(s, hasWallet)
  \/ \E s \in Scans : ScanBlock(s, TRUE)
  \/ \E s \in Scans, n \in 0..1 : ScanLogs(s, TRUE, n)
  \/ \E s \in Scans : ScanLog(s, ToLowerCase(ScanWallet), FALSE)
  \/ \E s \in Scans, timestamp \in Timestamps : ScanSentBlock(s, TRUE, timestamp)
  \/ \E s \in Scans : ScanSentRead(s, TRUE)
  \/ \E s \in Scans : ScanReturn(s)

SpecRefetch == Init /\ [][NextRefetch]_vars


\* no call has been made yet
KdfIdle == kdf.op = NONE

\* the functions of lib/crypto/kdf called on their own with every input
NextKdf ==
  \/ KdfIdle /\ \E h1 \in ByteStrings, s1 \in ByteStrings, h2 \in ByteStrings, s2 \in ByteStrings :
        CallDeriveMasterKey(h1, s1, h2, s2)
  \/ KdfIdle /\ \E password \in Passwords, salt \in Salts : CallDerivePasswordHash(password, salt)
  \/ KdfIdle /\ \E password \in Passwords, salt \in Salts, config \in Configs :
        CallDerivePasswordHashWith(password, salt, config)
  \/ KdfIdle /\ \E password \in Passwords, salt \in Salts : CallDeriveUnlockKey(password, salt)
  \/ KdfIdle /\ \E n \in SaltLengths, id \in 1..MaxSalt : CallGenerateArgon2Salt(n, id)
  \/ KdfIdle /\ \E k \in KeyInputs, d1 \in Derivations, d2 \in Derivations : CallDerivations(k, d1, d2)

SpecKdf == Init /\ [][NextKdf]_vars

\* the decoding applied to every transaction payload
InitDecode ==
  /\ InitManager
  /\ stealth = NoStealth
  /\ kdf = NoKdf
  /\ pipeline \in {[NoPipeline EXCEPT !.stage = "payload", !.input = p] : p \in Payloads}
  /\ proof = NoProof
  /\ sendPage = NoSend
  /\ hookState = InitialHookState

NextDecode == DecodePayload

SpecDecode == InitDecode /\ [][NextDecode]_vars

\* the stealth engine on every pair of key pairs and every ephemeral scalar
InitStealth ==
  /\ InitManager
  /\ stealth \in {[NoStealth EXCEPT !.stage = "keys", !.viewingPriv = v,
                                   !.spendingPriv = sp, !.r = r] :
                    v \in Scalars, sp \in Scalars, r \in Scalars}
  /\ kdf = NoKdf
  /\ pipeline = NoPipeline
  /\ proof = NoProof
  /\ sendPage = NoSend
  /\ hookState = InitialHookState

NextStealth ==
  \/ StealthGenerate
  \/ StealthCheck

SpecStealth == InitStealth /\ [][NextStealth]_vars

\* generateUsernameProof called once in either style, and the extraction
\* helpers applied to what it returned
NextProof ==
  \/ \E username \in Usernames, wallet \in ProofWallets, secret \in Secrets :
        GenerateUsernameProof(username, wallet, secret)
  \/ \E username \in Usernames, wallet \in ProofWallets, random \in RandomSecrets :
        GenerateUsernameProofObject(username, wallet, random)
  \/ ProofReturned
  \/ ExtractUsernameHash
  \/ ExtractCommitment

SpecProof == Init /\ [][NextProof]_vars

\* the ledger and wallet calls that handleSend awaits return
SendAwaits ==
  \/ \E ok \in BOOLEAN : SendBlockNumber(ok)
  \/ \E ok \in BOOLEAN, logs \in RegisteredLogs : SendGetLogs(ok, logs)
  \/ \E ok \in BOOLEAN, registered \in BOOLEAN, generated \in BOOLEAN :
        SendMetaKeys(ok, [registered |-> registered], generated)
  \/ \E ok \in BOOLEAN, currentAllowance \in Allowances : SendAllowance(ok, currentAllowance)
  \/ \E ok \in BOOLEAN : SendApproveTx(ok)
  \/ \E ok \in BOOLEAN : SendApproveReceipt(ok)
  \/ \E ok \in BOOLEAN : SendStealthTx(ok)
  \/ \E ok \in BOOLEAN : SendStealthReceipt(ok)

\* the send page: the button is clicked whenever it is enabled, and every
\* call that a send awaits returns in the end
NextSend ==
  \/ \E hasClient \in BOOLEAN, recipient \in Recipients, amount \in Amounts :
        HandleSend(hasClient, recipient, amount)
  \/ SendAwaits

SpecSend == Init /\ [][NextSend]_vars /\ WF_vars(SendAwaits)




\* ================================================================ claims
Done(t) == tasks[t].pc = "done"
Failed(t) == Done(t) /\ tasks[t].res # OK

\* C1: when initialize or unlock (also the unlock run by updatePassword)
\* raises an error, the manager is not Unlocked at that moment: isUnlocked
\* is false and no KeySet is held, whatever the state was before the call.
C1_FailedTransitionLocks ==
  \A t \in Tasks :
    (Failed(t) /\ tasks[t].raisedBy \in {"initialize", "unlock"})
      => (~state.isUnlocked /\ state.keys = NULL)

\* a call fails while the manager was Unlocked for another account
C1_Witness ==
  \E t \in Tasks :
    /\ Failed(t) /\ tasks[t].raisedBy \in {"initialize", "unlock"}
    /\ tasks[t].preUnlocked
    /\ state.walletAddress # tasks[t].wallet

\* C2 as stated: whenever unlock fails on a record it has loaded (wrong
\* password, undecryptable record, KeySet rejected by validation), the error
\* raised is AUTH_INVALID_PASSWORD.
C2_AnyFailureIsInvalidPassword ==
  \A t \in Tasks :
    (Failed(t) /\ tasks[t].raisedBy = "unlock" /\ tasks[t].loaded.present)
      => tasks[t].res = AUTH_INVALID_PASSWORD

\* C2 amended: a failure of unlock is reported as AUTH_INVALID_PASSWORD
\* exactly when a record was loaded and the key derivation or the decryption
\* failed (wrong password and damaged record look the same); a missing
\* record is reported as KEY_NOT_INITIALIZED and a decrypted KeySet that
\* fails validation as KEY_INVALID.
C2_UnlockErrorCodes ==
  \A t \in Tasks :
    (Failed(t) /\ tasks[t].raisedBy = "unlock") =>
      LET rec == tasks[t].loaded
          uk == DeriveUnlockKey(tasks[t].password, rec.unlockSalt)
          dec == DecryptKeys(rec, uk.key)
      IN /\ (tasks[t].res = KEY_NOT_INITIALIZED) <=> ~rec.present
         /\ (tasks[t].res = AUTH_INVALID_PASSWORD) <=> (rec.present /\ (~uk.ok \/ ~dec.ok))
         /\ (tasks[t].res = KEY_INVALID) <=>
               (rec.present /\ uk.ok /\ dec.ok /\ ~ValidateKeys(dec.keys))
         /\ tasks[t].res \in {KEY_NOT_INITIALIZED, AUTH_INVALID_PASSWORD, KEY_INVALID}

\* unlock with the right password fails on a damaged record and reports an
\* invalid password
C2_Witness ==
  \E t \in Tasks :
    /\ Failed(t) /\ tasks[t].raisedBy = "unlock"
    /\ tasks[t].res = AUTH_INVALID_PASSWORD
    /\ tasks[t].loaded.present /\ IsZero(tasks[t].loaded.key)
    /\ tasks[t].password # 0

\* C3: getKeys() and getPublicKeys() fail with KEY_LOCKED whenever the
\* manager is not Unlocked (Uninitialized or Locked), and whenever getKeys()
\* returns a KeySet the manager is Unlocked and Initialized and the KeySet
\* is live key material (valid, private keys not zeroed).
C3_KeysOnlyWhenUnlocked ==
  /\ ~state.isUnlocked =>
        /\ ~GetKeys(state).ok /\ GetKeys(state).err = KEY_LOCKED
        /\ ~GetPublicKeys(state, heap).ok /\ GetPublicKeys(state, heap).err = KEY_LOCKED
  /\ GetKeys(state).ok =>
        /\ state.isUnlocked /\ state.isInitialized
        /\ GetPublicKeys(state, heap).ok
        /\ ValidateKeys(heap[GetKeys(state).keys])

\* the manager is Locked after it has held keys
C3_Witness ==
  /\ state.isInitialized /\ ~state.isUnlocked
  /\ \E r \in 1..Len(heap) : PrivateZeroed(heap[r])

\* a successful unlock or initialize completes in this step
SucceedsStep(t) ==
  \/ tasks[t].pc = "i_saved" /\ tasks'[t].pc = "done" /\ tasks'[t].res = OK
  \/ tasks[t].pc = "u_decrypt" /\ tasks'[t].pc = "done" /\ tasks'[t].res = OK
  \/ tasks[t].pc = "u_decrypt" /\ tasks'[t].pc = "p_unlocked"

\* C4: when the manager stops holding its KeySet (lock()), every private-key
\* byte of that KeySet is zero afterwards and stays zero, no KeySet is held,
\* and getKeys() fails with KEY_LOCKED until a step in which an unlock or an
\* initialize succeeds.
C4_LockWipes ==
  [][/\ (state.keys # NULL /\ state'.keys = NULL) =>
          /\ PrivateZeroed(heap'[state.keys])
          /\ ~GetKeys(state').ok /\ GetKeys(state').err = KEY_LOCKED
     /\ \A r \in 1..Len(heap) : PrivateZeroed(heap[r]) => PrivateZeroed(heap'[r])
     /\ (~GetKeys(state).ok /\ GetKeys(state').ok) => \E t \in Tasks : SucceedsStep(t)
    ]_vars

\* locked, initialized, and the KeySet that was held is zeroed
C4_Witness ==
  /\ state.isInitialized /\ state.keys = NULL /\ Len(heap) > 0
  /\ \A r \in 1..Len(heap) : PrivateZeroed(heap[r])
  /\ Quiet

\* C5: when initialize finds a record for the wallet address it fails with
\* KEY_ALREADY_EXISTS in that very step: no salt drawn, no hash, no signature
\* request, no KeySet, no record built, and the store is left as it was.
C5_AlreadyExists ==
  [][\A t \in Tasks :
       (/\ tasks[t].op = "initialize" /\ tasks[t].pc = "i_exists"
        /\ vault[tasks[t].wallet].present
        /\ tasks'[t] # tasks[t])
       => /\ tasks'[t].pc = "done" /\ tasks'[t].res = KEY_ALREADY_EXISTS
          /\ tasks'[t].signed = 0 /\ tasks'[t].hash = 0
          /\ tasks'[t].keys = NULL /\ tasks'[t].salt = NoSalt
          /\ tasks'[t].unlockSalt = NoSalt /\ IsZero(tasks'[t].unlockKey)
          /\ tasks'[t].encrypted = NoRecord
          /\ vault' = vault /\ rng' = rng /\ Len(heap') = Len(heap)
    ]_vars

\* a second initialize on an account has failed with KEY_ALREADY_EXISTS
C5_Witness ==
  \E t \in Tasks :
    /\ Done(t) /\ tasks[t].op = "initialize" /\ tasks[t].res = KEY_ALREADY_EXISTS
    /\ vault[tasks[t].wallet].present

C7_FailedUpdateKeepsRecord ==
  [][\A t \in Tasks :
       (tasks[t].op = "updatePassword" /\ tasks'[t] # tasks[t]) =>
          /\ vault' # vault => tasks'[t].pc = "p_saved"
          /\ tasks[t].pc = "p_saved" => (tasks'[t].res = OK /\ vault' = vault)
          /\ (tasks'[t].pc = "done" /\ tasks'[t].res # OK) => vault' = vault
    ]_vars

\* updatePassword has failed after the old password was accepted, and the
\* record is the one it loaded
C7_Witness ==
  \E t \in Tasks :
    /\ Failed(t) /\ tasks[t].op = "updatePassword"
    /\ tasks[t].existing.present
    /\ vault[tasks[t].wallet] = tasks[t].existing

\* C8: with serialized calls, a successful updatePassword has persisted a
\* record with the master-key salt, account, user identifier and auth method
\* of the record it replaced, a newly drawn unlock salt and the same KeySet
\* as plaintext; no master key was derived and the signer was not asked.
C8_UpdateKeepsRecordFields ==
  \A t \in Tasks :
    (Done(t) /\ tasks[t].op = "updatePassword" /\ tasks[t].res = OK) =>
      LET old == tasks[t].loaded
          new == vault[tasks[t].wallet]
      IN /\ old.present /\ new.present
         /\ new.salt = old.salt
         /\ new.walletAddress = old.walletAddress
         /\ new.userIdentifier = old.userIdentifier
         /\ new.authMethod = old.authMethod
         /\ new.unlockSalt # old.unlockSalt
         /\ new.unlockSalt.id = rng /\ new.unlockSalt.len = UNLOCK_SALT_LENGTH
         /\ new.plain = old.plain
         /\ tasks[t].signed = 0 /\ tasks[t].hash = 0

\* a password change to a different password has succeeded
C8_Witness ==
  \E t \in Tasks :
    /\ Done(t) /\ tasks[t].op = "updatePassword" /\ tasks[t].res = OK
    /\ tasks[t].newPassword # tasks[t].password

\* what unlock(password) does on a record of the store, as one function:
\* the error code, or OK and the KeySet that the manager then holds
UnlockOutcome(rec, password) ==
  IF ~rec.present THEN [res |-> KEY_NOT_INITIALIZED, keys |-> NoKeys]
  ELSE LET uk == DeriveUnlockKey(password, rec.unlockSalt)
           dec == DecryptKeys(rec, uk.key)
       IN IF ~uk.ok \/ ~dec.ok THEN [res |-> AUTH_INVALID_PASSWORD, keys |-> NoKeys]
          ELSE IF ~ValidateKeys(dec.keys)
          THEN [res |-> UnlockInvalidKeysCode, keys |-> NoKeys]
          ELSE [res |-> OK, keys |-> dec.keys]

C10_SignerOnlyInInitialize ==
  \A t \in Tasks :
    /\ tasks[t].signed <= 1
    /\ tasks[t].signed > 0 => tasks[t].op = "initialize"

\* an updatePassword has run to its end without a signature
C10_Witness ==
  \E t \in Tasks :
    /\ Done(t) /\ tasks[t].op = "updatePassword" /\ tasks[t].res = OK
    /\ tasks[t].signed = 0

\* a call of initialize or unlock is suspended at an await
Suspended(t) == InFlight(t) /\ tasks[t].op \in {"initialize", "unlock"}

\* C11 as stated: while an initialize or an unlock is suspended at an await,
\* no other initialize or unlock starts executing (a call made then is
\* rejected at once or stays deferred) and lock() does not execute.
C11_NoInterleaving ==
  [][(\E t \in Tasks : Suspended(t)) =>
       /\ \A u \in Tasks :
            (tasks[u].pc = "idle" /\ tasks'[u].op \in {"initialize", "unlock"})
              => tasks'[u].pc = "done"
       /\ tasks' = tasks => (state' = state /\ heap' = heap)
    ]_vars

\* C12: a step of initialize makes the manager Unlocked only when its save
\* has been taken by the store, and that step ends the call without error;
\* a step that ends initialize with an error leaves the manager not
\* Unlocked; initialize ends without error only after its save, and the
\* save has put the record of the call under its account.
C12_UnlockedOnlyAfterSave ==
  [][\A t \in Tasks :
       (tasks[t].op = "initialize" /\ tasks'[t] # tasks[t]) =>
          /\ tasks'[t].pc = "i_saved" =>
                /\ vault'[tasks[t].wallet].present
                /\ vault'[tasks[t].wallet] = tasks[t].encrypted
          /\ (tasks'[t].pc = "done" /\ tasks'[t].res = OK) => tasks[t].pc = "i_saved"
          /\ (state' # state /\ state'.isUnlocked) =>
                (tasks[t].pc = "i_saved" /\ tasks'[t].res = OK)
          /\ (tasks'[t].pc = "done" /\ tasks'[t].res # OK) =>
                (~state'.isUnlocked /\ state'.keys = NULL)
    ]_vars

\* initialize has succeeded: the manager is Unlocked and the record of the
\* call is the one in the store
C12_Witness ==
  \E t \in Tasks :
    /\ Done(t) /\ tasks[t].op = "initialize" /\ tasks[t].res = OK
    /\ state.isUnlocked /\ state.walletAddress = tasks[t].wallet
    /\ vault[tasks[t].wallet] = tasks[t].encrypted

\* C13: a step of lock() keeps isInitialized, walletAddress, userIdentifier
\* and authMethod, leaves isUnlocked false and keys null, touches no KeySet
\* but the one that was held (whose public keys it keeps) and nothing in the
\* store; and from any state a second lock() changes nothing that the first
\* one left.
C13_LockIdempotent ==
  [][/\ LET s1 == LockState(state)
            h1 == LockHeap(heap, state)
        IN LockState(s1) = s1 /\ LockHeap(h1, s1) = h1
     /\ (tasks' = tasks /\ vault' = vault /\ (state' # state \/ heap' # heap)) =>
          /\ state'.isInitialized = state.isInitialized
          /\ state'.walletAddress = state.walletAddress
          /\ state'.userIdentifier = state.userIdentifier
          /\ state'.authMethod = state.authMethod
          /\ ~state'.isUnlocked /\ state'.keys = NULL
          /\ Len(heap') = Len(heap)
          /\ \A r \in 1..Len(heap) :
               /\ r # state.keys => heap'[r] = heap[r]
               /\ ExportPublicKeys(heap'[r]) = ExportPublicKeys(heap[r])
          /\ rng' = rng /\ origin' = origin
          /\ LockState(state') = state' /\ LockHeap(heap', state') = heap'
    ]_vars

\* one call was made, it initialized the manager, and lock() has run since:
\* the account is still named and the KeySet is wiped
C13_Witness ==
  /\ Quiet /\ calls = 1
  /\ state.isInitialized /\ ~state.isUnlocked /\ state.keys = NULL
  /\ state.walletAddress # NULL /\ state.userIdentifier # NULL
  /\ Len(heap) = 1 /\ PrivateZeroed(heap[1]) /\ ~IsZero(heap[1].metaViewingPub)

\* C14: when unlock (called directly or by updatePassword) finds no record
\* for the account, it fails with KEY_NOT_INITIALIZED in that very step: no
\* unlock key is derived, no KeySet is materialized, the signer is not
\* asked, the store is untouched and the manager is left not Unlocked.
C14_UnlockWithoutRecord ==
  [][\A t \in Tasks :
       (/\ RunsUnlock(t) /\ tasks[t].pc = "u_load"
        /\ ~vault[tasks[t].wallet].present
        /\ tasks'[t] # tasks[t])
       => /\ tasks'[t].pc = "done" /\ tasks'[t].res = KEY_NOT_INITIALIZED
          /\ tasks'[t].raisedBy = "unlock"
          /\ IsZero(tasks'[t].unlockKey) /\ tasks'[t].unlockSalt = NoSalt
          /\ tasks'[t].keys = NULL /\ tasks'[t].signed = 0
          /\ Len(heap') = Len(heap) /\ rng' = rng /\ vault' = vault
          /\ ~state'.isUnlocked /\ state'.keys = NULL
    ]_vars

\* the manager was Unlocked when an unlock for an account without a record
\* failed
C14_Witness ==
  \E t \in Tasks :
    /\ Done(t) /\ tasks[t].op = "unlock" /\ tasks[t].res = KEY_NOT_INITIALIZED
    /\ ~vault[tasks[t].wallet].present
    /\ tasks[t].preUnlocked /\ ~state.isUnlocked

\* C15 as stated: when initialize, unlock or updatePassword returns, on
\* success or with an error, every byte of the unlock key it derived is
\* zero.
C15_UnlockKeyZeroedOnReturn ==
  \A t \in Tasks : Done(t) => IsZero(tasks[t].unlockKey)

\* C16 as stated: when initialize or unlock has failed, the manager holds
\* no KeySet and every private-key buffer of the KeySet that the call
\* derived or decrypted before failing is zero.
C16_NoStaleKeyMaterial ==
  \A t \in Tasks :
    (Failed(t) /\ tasks[t].raisedBy \in {"initialize", "unlock"}) =>
      /\ state.keys = NULL
      /\ tasks[t].keys # NULL => PrivateZeroed(heap[tasks[t].keys])

\* C18 as stated: the KeySet sealed in a record of the store carries no
\* master key, and the KeySet that a successful unlock puts in memory has
\* none either (the master key comes only from the password and the
\* signature together).
C18_MasterKeyNotPersisted ==
  /\ \A a \in Addr : vault[a].present => IsZero(vault[a].plain.masterKey)
  /\ \A t \in Tasks :
       (Done(t) /\ tasks[t].op = "unlock" /\ tasks[t].res = OK) =>
          IsZero(heap[tasks[t].keys].masterKey)

\* C19: initialize consults the store once, at its first step: a call that
\* has passed the existence check never fails with KEY_ALREADY_EXISTS, its
\* save puts its record under the account even when another record has
\* been stored there meanwhile, and it then ends without error.
C19_CheckThenSaveNotAtomic ==
  [][\A t \in Tasks :
       (/\ tasks[t].op = "initialize" /\ tasks[t].pc # "i_exists"
        /\ tasks'[t] # tasks[t]) =>
          /\ tasks'[t].res # KEY_ALREADY_EXISTS
          /\ (tasks[t].pc = "i_save" /\ tasks'[t].pc # "done") =>
                /\ tasks'[t].pc = "i_saved"
                /\ vault'[tasks[t].wallet] = tasks[t].encrypted
          /\ tasks[t].pc = "i_saved" => (tasks'[t].pc = "done" /\ tasks'[t].res = OK)
    ]_vars

\* two overlapping initialize calls on one account have both passed the
\* check and both saved: the record of the first is overwritten, and both
\* are about to return without error
C19_Witness ==
  \E t \in Tasks, u \in Tasks :
    /\ t # u
    /\ tasks[t].op = "initialize" /\ tasks[u].op = "initialize"
    /\ tasks[t].wallet = tasks[u].wallet
    /\ tasks[t].pc = "i_saved" /\ tasks[u].pc = "i_saved"
    /\ vault[tasks[u].wallet] = tasks[u].encrypted
    /\ tasks[t].encrypted # tasks[u].encrypted

\* C20: for every viewing and spending key pair and every ephemeral scalar,
\* check applied to what generate published, with the viewing private key
\* and the spending public key, answers isForMe with the derived address
\* equal to the stealth address, and the shared point of the recipient is
\* the shared point of the sender.
C20_StealthRoundTrip ==
  stealth.stage = "checked" =>
    /\ stealth.isForMe
    /\ stealth.derivedAddress = stealth.stealthAddress
    /\ stealth.sharedRecipient = stealth.sharedSender

\* a payment generated for two different key pairs has been checked
C20_Witness ==
  /\ stealth.stage = "checked" /\ stealth.isForMe
  /\ stealth.viewingPriv # stealth.spendingPriv
  /\ stealth.r > 1

\* C17: a payment scan never hands the stealth check key buffers that
\* lock() has zeroed since the scan took them from getKeys(): whenever a
\* scan has made its check, the viewing key it used was intact and the
\* KeySet was still the one the manager held, so nothing it publishes was
\* computed from zeroed keys.
C17_ScanNeverUsesLockedKeys ==
  \A s \in Scans :
    scans[s].check # NONE => (scans[s].check = "live" /\ scans[s].held)


\* KeyManager.isInitialized
IsInitialized(s) == s.isInitialized

\* C30: between calls, isInitialized() of a manager that knows its account
\* is true exactly when a vault record of that account is persisted.
C30_IsInitializedMatchesStorage ==
  (Quiet /\ state.walletAddress # NULL)
    => (IsInitialized(state) <=> vault[state.walletAddress].present)


\* C26 as stated: deriveMasterKey is deterministic, and any two distinct
\* pairs (h, s), (h', s') of inputs, of whatever lengths, hand different
\* input key material to the keyed hash and so give different master keys.
C26_DistinctPairsDistinctKeys ==
  kdf.op = "deriveMasterKey" =>
    LET h1 == kdf.in[1]  s1 == kdf.in[2]  h2 == kdf.in[3]  s2 == kdf.in[4]
    IN /\ (<<h1, s1>> = <<h2, s2>>) => kdf.out[1] = kdf.out[2]
       /\ (<<h1, s1>> # <<h2, s2>>) =>
            (MasterKeyIkm(h1, s1) # MasterKeyIkm(h2, s2) /\ kdf.out[1] # kdf.out[2])

\* C26 amended: deriveMasterKey is deterministic; varying one input while
\* the other is kept changes the input key material and the master key; and
\* two distinct pairs whose password hashes have the same length (both are
\* 32-byte Argon2id outputs) give different input key material and
\* different master keys.  Pairs that split the same bytes at different
\* places are not told apart.
C26_MasterKeyDeterminism ==
  kdf.op = "deriveMasterKey" =>
    LET h1 == kdf.in[1]  s1 == kdf.in[2]  h2 == kdf.in[3]  s2 == kdf.in[4]
        differ == MasterKeyIkm(h1, s1) # MasterKeyIkm(h2, s2) /\ kdf.out[1] # kdf.out[2]
    IN /\ (<<h1, s1>> = <<h2, s2>>) => kdf.out[1] = kdf.out[2]
       /\ (h1 = h2 /\ s1 # s2) => differ
       /\ (h1 # h2 /\ s1 = s2) => differ
       /\ (<<h1, s1>> # <<h2, s2>> /\ Len(h1) = Len(h2)) => differ
       /\ kdf.out[1].length = MASTER_KEY_LENGTH

\* deriveMasterKey has been called on two pairs that differ in both inputs,
\* with password hashes of the same length
C26_Witness ==
  /\ kdf.op = "deriveMasterKey"
  /\ kdf.in[1] # kdf.in[3] /\ kdf.in[2] # kdf.in[4]
  /\ Len(kdf.in[1]) = Len(kdf.in[3]) /\ Len(kdf.in[1]) > 0
  /\ kdf.out[1] # kdf.out[2]


\* C27: derivePasswordHash fails with ARGON2_INVALID_SALT when the salt is
\* shorter than 16 bytes (also when the password is empty as well), with
\* ARGON2_INVALID_PASSWORD when the salt is long enough and the password is
\* empty, in both cases before argon2id is called; generateArgon2Salt(n)
\* fails with INVALID_SALT_LENGTH for n < 16 before the random source is
\* asked, and returns exactly n bytes for n >= 16.
C27_SaltFloorFirst ==
  /\ kdf.op = "derivePasswordHash" =>
       LET password == kdf.in[1]  salt == kdf.in[2]
       IN /\ salt.len < MIN_SALT_LENGTH =>
               (~kdf.out.ok /\ kdf.out.err = ARGON2_INVALID_SALT /\ kdf.out.argon2 = NoArgon2)
          /\ (salt.len >= MIN_SALT_LENGTH /\ password = 0) =>
               (~kdf.out.ok /\ kdf.out.err = ARGON2_INVALID_PASSWORD
                  /\ kdf.out.argon2 = NoArgon2)
          /\ (salt.len >= MIN_SALT_LENGTH /\ password # 0) =>
               (kdf.out.ok /\ kdf.out.argon2.salt = salt
                  /\ kdf.out.argon2.password = password)
  /\ kdf.op = "generateArgon2Salt" =>
       LET n == kdf.in[1]
       IN /\ n < MIN_SALT_LENGTH =>
               (~kdf.out.ok /\ kdf.out.err = INVALID_SALT_LENGTH /\ kdf.out.salt = NoSalt)
          /\ n >= MIN_SALT_LENGTH =>
               (kdf.out.ok /\ kdf.out.salt.len = n /\ kdf.out.salt.id = kdf.in[2])

\* derivePasswordHash has been called with a short salt and an empty
\* password at once
C27_Witness ==
  /\ kdf.op = "derivePasswordHash"
  /\ kdf.in[1] = 0 /\ kdf.in[2].len = 15
  /\ kdf.out.err = ARGON2_INVALID_SALT


\* the (salt, info) pair a derivation hands to HKDF
SaltInfo(key) == <<key.salt, key.info>>

\* C28: the fixed (salt, info) constants of deriveMasterKey, deriveUnlockKey
\* and deriveSubKey are pairwise distinct and the info string of
\* deriveSubKey is different for different purpose labels: two different
\* derivations made from the same key never hand the same (key, salt, info)
\* triple to HKDF and give unequal outputs.
C28_DomainSeparation ==
  /\ MASTER_SALT # SUBKEY_SALT /\ MASTER_SALT # UNLOCK_SALT /\ SUBKEY_SALT # UNLOCK_SALT
  /\ kdf.op = "derive" =>
       LET d1 == kdf.in[2]  d2 == kdf.in[3]
           r1 == kdf.out[1]  r2 == kdf.out[2]
       IN (r1.ok /\ r2.ok) =>
            /\ r1.key.ikm = kdf.in[1] /\ r2.key.ikm = kdf.in[1]
            /\ d1 # d2 => (SaltInfo(r1.key) # SaltInfo(r2.key) /\ r1.key # r2.key)
            /\ d1 = d2 => r1.key = r2.key

\* the storage-encryption and the meta-viewing sub-keys have been derived
\* from one master key
C28_Witness ==
  /\ kdf.op = "derive"
  /\ kdf.in[2] = [kind |-> "sub", purpose |-> "storage-encryption"]
  /\ kdf.in[3] = [kind |-> "sub", purpose |-> "meta-viewing-key"]
  /\ kdf.out[1].ok /\ kdf.out[2].ok
  /\ kdf.out[1].key # kdf.out[2].key


\* C29: derivePasswordHash called without a config, directly or by
\* deriveUnlockKey, runs argon2id with memory cost 65536 KiB, 3 passes,
\* 4 lanes and a 32-byte output.
C29_DefaultArgon2Parameters ==
  (/\ kdf.op \in {"derivePasswordHash", "deriveUnlockKey"}
   /\ kdf.op = "derivePasswordHash" => kdf.in[3] = NONE
   /\ kdf.out.ok)
    => /\ kdf.out.argon2.memorySize = DEFAULT_ARGON2_CONFIG.memoryCost
       /\ kdf.out.argon2.iterations = DEFAULT_ARGON2_CONFIG.timeCost
       /\ kdf.out.argon2.parallelism = DEFAULT_ARGON2_CONFIG.parallelism
       /\ kdf.out.argon2.hashLength = DEFAULT_ARGON2_CONFIG.hashLength


LogsOf(sc) == IF sc.cur.index = 0 THEN sc.seen ELSE Append(sc.seen, sc.cur)

EntriesOf(list) ==
  [e \in {list[i] : i \in 1..Len(list)} |-> Cardinality({i \in 1..Len(list) : list[i] = e})]

\* C24: the list a completed scan publishes holds the entries the scan
\* collected, in order of non-increasing timestamp, whatever the order in
\* which the logs were processed and their blocks were read.
C24_PublishedByTimestamp ==
  \A s \in Scans :
    scans[s].published = "list" =>
      LET list == scans[s].transactions
      IN /\ \A i \in 1..Len(list) : \A j \in 1..Len(list) :
              i < j => list[i].timestamp >= list[j].timestamp
         /\ EntriesOf(list) = EntriesOf(scans[s].payments)

\* a scan collected an older entry before a newer one and has published
\* the newer one first
C24_Witness ==
  \E s \in Scans :
    /\ scans[s].published = "list"
    /\ Len(scans[s].payments) = 2
    /\ scans[s].payments[1].timestamp < scans[s].payments[2].timestamp
    /\ scans[s].transactions[1] = scans[s].payments[2]
    /\ scans[s].transactions[1].type # scans[s].transactions[2].type


C25_ScanLeavesKeyManager ==
  [][scans' # scans => (state' = state /\ heap' = heap /\ vault' = vault)]_vars

\* a scan ran its stealth check on the held KeySet and published a received
\* payment, and the manager is still unlocked with the viewing key intact
C25_Witness ==
  \E s \in Scans :
    /\ scans[s].published = "list" /\ scans[s].check = "live" /\ scans[s].held
    /\ \E j \in 1..Len(scans[s].transactions) : scans[s].transactions[j].type = "received"
    /\ state.isUnlocked /\ state.keys = scans[s].keys
    /\ ~IsZero(heap[state.keys].metaViewingPriv)


\* C32: in every state of the manager, with calls overlapping or not,
\* isUnlocked holds exactly when a KeySet is held, and an unlocked manager
\* is initialized and knows its wallet address.
C32_FlagsAndKeysInStep ==
  /\ state.isUnlocked <=> state.keys # NULL
  /\ state.isUnlocked => (state.isInitialized /\ state.walletAddress # NULL)
  /\ state.keys # NULL => state.keys \in 1..Len(heap)

\* a call has failed on a manager that was unlocked before, and the catch
\* block left it locked, without a KeySet and still initialized
C32_Witness ==
  /\ \E t \in Tasks : /\ tasks[t].pc = "done" /\ tasks[t].res \notin {OK, NONE}
                      /\ tasks[t].raisedBy \in {"initialize", "unlock"}
                      /\ tasks[t].preUnlocked
  /\ ~state.isUnlocked /\ state.keys = NULL /\ state.isInitialized


\* C33 as stated: a call of initialize or unlock (also the unlock run by
\* updatePassword) that was suspended at an await when lock() ran never
\* makes the manager Unlocked when it resumes: after lock() the manager
\* stays Locked until a call started later succeeds.
C33_LockOutlastsSuspendedCalls ==
  [][\A t \in Tasks :
       (t \in lockedOver /\ tasks'[t] # tasks[t])
         => (GetKeys(state').ok => GetKeys(state).ok)]_vars


\* C34 as stated: whenever the manager stops referencing a KeySet, by
\* lock() or because a successful unlock, initialize or updatePassword puts
\* another KeySet in its place, the private-key bytes of the KeySet it
\* referenced are zero after that step.
C34_DroppedKeySetZeroed ==
  [][(state.keys # NULL /\ state'.keys # state.keys)
       => PrivateZeroed(heap'[state.keys])]_vars


\* C35 as stated: whenever the manager is Unlocked and no call is in
\* flight, the record stored for its account, if there is one, opens under
\* the password that sealed it and holds the KeySet the manager holds: the
\* public keys in the record are those getPublicKeys() returns.  Calls may
\* overlap.
C35_RecordMatchesHeldKeySet ==
  (Quiet /\ GetKeys(state).ok /\ vault[state.walletAddress].present) =>
    LET rec == vault[state.walletAddress]
        sealedWith == origin[state.walletAddress]
    IN /\ ExportPublicKeys(rec.plain) = GetPublicKeys(state, heap).pub
       /\ sealedWith.valid =>
            DecryptKeys(rec, DeriveUnlockKey(sealedWith.password, rec.unlockSalt).key).ok


C37_CheckedWithOwnKey ==
  \A s \in Scans : \A i \in 1..Len(scans[s].seen) :
    LET l == scans[s].seen[i]
    IN (l.checked /\ ~l.self /\ l.forMe /\ PaidWith \in l.carried) => l.passed = PaidWith


\* the word of a 32-byte hex string: its 64 digits
WordOf(hex) == SubSeq(hex, 3, Len(hex))

StealthSubmitted ==
  \E i \in 1..Len(sendPage.submitted) : sendPage.submitted[i] = "sendToStealth"

\* the steps of handleSend that come before the sendToStealth transaction
EarlierSteps == {"getBlockNumber", "getLogs", "notFound", "getMetaKeys", "unregistered",
                 "generateStealthPayment", "parseUnits", "allowance", "approve",
                 "approveReceipt"}

C39_SubmittedAfterChecks ==
  /\ StealthSubmitted =>
       /\ sendPage.registered = "registered"
       /\ \/ sendPage.allowanceRead /\ sendPage.allowance >= sendPage.amountInWei
          \/ sendPage.approveAwaited
  /\ sendPage.failedAt \in EarlierSteps =>
       ~StealthSubmitted /\ sendPage.sendStatus = "error"

SendStarted == sendPage.sendStatus \in {"resolving", "generating", "approving", "sending"}
SendEnded == sendPage.sendStatus \in {"success", "error"}

\* C39: a sendToStealth transaction is submitted only after the meta keys
\* of the recipient were read as registered, and after the allowance was
\* read as at least the amount or the receipt of an approve transaction was
\* awaited; a send that failed at an earlier step has submitted no
\* sendToStealth transaction and its status is error; and every started
\* send ends in success or error once the calls it awaits return
C39_SendOnlyAfterChecksAndEnds ==
  /\ []C39_SubmittedAfterChecks
  /\ SendStarted ~> SendEnded

\* a payment to a username went through the approve transaction and its
\* receipt, was submitted and ended in success
C39_Witness ==
  /\ sendPage.sendStatus = "success"
  /\ sendPage.submitted = <<"approve", "sendToStealth">>
  /\ ~IsDirectAddress(sendPage.recipient)
  /\ sendPage.registered = "registered"


\* the state of the hook was set last by a scan that was already in flight
\* when a scan that has published its list was started
OverwrittenByOlder ==
  \E q \in Scans, s \in Scans :
    /\ q \in scans[s].older
    /\ scans[s].pc = "done" /\ scans[s].published = "list"
    /\ scans[q].pc = "done"
    /\ hookState.by = q

\* C38: when a scan is started while an earlier one is in flight, what the
\* hook publishes in the end is the result of the scan started last: a scan
\* that was started earlier and completes later does not overwrite it, and
\* scanning is not cleared while a scan is still running
C38_LatestScanWins ==
  /\ ~OverwrittenByOlder
  /\ Running # {} => hookState.scanning

\* the first part of C38 alone
C38_NotOverwritten == ~OverwrittenByOlder

\* the second part of C38 alone
C38_ScanningWhileRunning == Running # {} => hookState.scanning

====
